---- MODULE Spec2Model ----
(***************************************************************************)
(* Verification model of demagnetize: the per-magnet session orchestrator  *)
(* (session.py), the tracker task (trackers/base.py), the peer worker      *)
(* (peer/core.py) and the info validation at the end of the BEP 9 loop.    *)
(*                                                                         *)
(* Concurrency is anyio's: every task runs from one suspension point to    *)
(* the next without interruption, so an action is the code between two     *)
(* suspension points.  A task group re-raises what its children raise; a   *)
(* cancelled scope raises CancelledError in each task at the suspension    *)
(* point it is blocked in, unless the task is inside a shielded scope or   *)
(* has already been woken with a result.                                   *)
(***************************************************************************)
EXTENDS Naturals, Integers, Sequences, FiniteSets, Bags, TLC

(***************************************************************************)
(* Bounds of the model.                                                    *)
(***************************************************************************)
\* Largest number of tracker URLs in the magnet.
NumTrackers == 2
\* Number of distinct (host, port) addresses a tracker can report.
NumAddrs == 3
\* Largest number of peers in one announce response.
MaxPeersPerAnnounce == 2
\* consts.py sets PEERS_PER_MAGNET_LIMIT = 30; the model scales the capacity
\* down so that more novel peers than slots exist and the limiter binds.
PEERS_PER_MAGNET_LIMIT == 2

None == "None"

\* No peer: the value of a variable that holds no Peer yet.
NoPeer == [addr |-> 0, id |-> 0]

(***************************************************************************)
(* Data: magnet.tr, Peer, announce responses.                              *)
(***************************************************************************)
\* A tracker URL is one Tracker.from_url accepts ("udp") or one it rejects
\* with ValueError ("bad": unparsable, unsupported scheme, no host/port).
UrlKinds == {"udp", "bad"}

MagnetTrs == UNION {[1..n -> UrlKinds] : n \in 0..NumTrackers}

\* Peer(host, port, id): addr stands for (host, port); id 0 is None.  Only
\* address 1 is ever reported with a peer id, which is enough to have the
\* same address with two different ids.
Peer == {p \in [addr : 1..NumAddrs, id : 0..1] : p.id = 1 => p.addr = 1}

\* A peer compared as a whole: host, port and peer id.
addressAndId(p) == p

\* Peer.address
address(p) == p.addr

PeerLists == UNION {[1..n -> Peer] : n \in 0..MaxPeersPerAnnounce}

(***************************************************************************)
(* bencode.py.  Bytes are sequences of byte values; a decoded value is a   *)
(* record [t, v]: t = "int" with v the number, t = "bytes" with v the      *)
(* byte sequence, t = "list" with v the sequence of items, t = "dict" with *)
(* v the sequence of [k, val] entries in insertion order.                  *)
(***************************************************************************)
\* The byte values the bencoding gives a meaning to.
Ord == [minus |-> 45, zero |-> 48, one |-> 49, colon |-> 58,
        d |-> 100, e |-> 101, i |-> 105, l |-> 108]

\* bytes.isdigit() of a single byte
isdigit(c) == c \in 48..57

\* Comparison of bytes objects: a < b
RECURSIVE BytesLess(_, _)
BytesLess(a, b) ==
    IF a = <<>> THEN b # <<>>
    ELSE IF b = <<>> THEN FALSE
    ELSE IF a[1] # b[1] THEN a[1] < b[1]
    ELSE BytesLess(Tail(a), Tail(b))

\* b"%d" % (n,) for n >= 0
RECURSIVE Digits(_)
Digits(n) ==
    IF n < 10 THEN <<48 + n>> ELSE Digits(n \div 10) \o <<48 + (n % 10)>>

\* b"%d" % (n,)
FormatInt(n) == IF n < 0 THEN <<Ord.minus>> \o Digits(0 - n) ELSE Digits(n)

\* int(num, 10) for a string of digits
RECURSIVE DigitsValue(_)
DigitsValue(ds) ==
    IF ds = <<>> THEN 0
    ELSE 10 * DigitsValue(SubSeq(ds, 1, Len(ds) - 1)) + (ds[Len(ds)] - 48)

\* int(num, 10) for a string of digits with an optional leading "-"
ParseInt(num) ==
    IF num[1] = Ord.minus THEN 0 - DigitsValue(Tail(num))
    ELSE DigitsValue(num)

\* The entries of a dict in the order of their insertion.
InsertionOrder(es) == es

\* sorted(obj.keys()): the entries of a dict in the order of their keys.
RECURSIVE SortEntries(_)
SortEntries(es) ==
    IF es = <<>> THEN <<>>
    ELSE LET m == CHOOSE j \in 1..Len(es) :
                    \A k \in 1..Len(es) : ~BytesLess(es[k].k, es[j].k)
         IN <<es[m]>> \o
            SortEntries(SubSeq(es, 1, m - 1) \o SubSeq(es, m + 1, Len(es)))

RECURSIVE bencode(_), bencodeAll(_), bencodeEntries(_)
\* b"".join(bencode(o) for o in obj)
bencodeAll(items) ==
    IF items = <<>> THEN <<>>
    ELSE bencode(Head(items)) \o bencodeAll(Tail(items))

\* the loop "s += bencode(key) + bencode(obj[key])" over the sorted keys
bencodeEntries(es) ==
    IF es = <<>> THEN <<>>
    ELSE bencode([t |-> "bytes", v |-> Head(es).k]) \o bencode(Head(es).val)
         \o bencodeEntries(Tail(es))

bencode(obj) ==
    CASE obj.t = "bytes" -> FormatInt(Len(obj.v)) \o <<Ord.colon>> \o obj.v
      [] obj.t = "int" -> <<Ord.i>> \o FormatInt(obj.v) \o <<Ord.e>>
      [] obj.t = "list" -> <<Ord.l>> \o bencodeAll(obj.v) \o <<Ord.e>>
      [] obj.t = "dict" ->
            <<Ord.d>> \o bencodeEntries(SortEntries(obj.v)) \o <<Ord.e>>

\* The outcome of a step of the Unbencoder: the exception raised ("" for
\* none), the value decoded and the index after it.
NoValue == [t |-> "none", v |-> 0]
Raised(e, index) == [err |-> e, val |-> NoValue, idx |-> index]
Decoded(val, index) == [err |-> "", val |-> val, idx |-> index]

\* The while loop of Unbencoder.read_int: getchar() until stop.
RECURSIVE read_digits(_, _, _, _)
read_digits(buff, index, stop, digits) ==
    IF index >= Len(buff) THEN Raised("UnbencodeError", index)
    ELSE LET c == buff[index + 1] IN
         IF c = stop THEN Decoded(digits, index + 1)
         ELSE IF ~isdigit(c) /\ ~(c = Ord.minus /\ digits = <<>>)
         THEN Raised("UnbencodeError", index + 1)
         ELSE read_digits(buff, index + 1, stop, Append(digits, c))

\* Unbencoder.read_int.  The checks let "-" through, on which int() raises
\* ValueError.
read_int(buff, index, stop) ==
    LET r == read_digits(buff, index, stop, <<>>) IN
    IF r.err # "" THEN r
    ELSE LET num == r.val IN
         IF \/ num = <<>>
            \/ num[1] = Ord.zero /\ Len(num) > 1
            \/ Len(num) >= 2 /\ num[1] = Ord.minus /\ num[2] = Ord.zero
         THEN Raised("UnbencodeError", r.idx)
         ELSE IF num = <<Ord.minus>> THEN Raised("ValueError", r.idx)
         ELSE Decoded(ParseInt(num), r.idx)

\* Unbencoder.read_bytes
read_bytes(buff, index, length) ==
    IF index + length <= Len(buff)
    THEN Decoded([t |-> "bytes", v |-> SubSeq(buff, index + 1, index + length)],
                 index + length)
    ELSE Raised("UnbencodeError", index)

\* Unbencoder.peek() == b"e"
peek_e(buff, index) == index < Len(buff) /\ buff[index + 1] = Ord.e

RECURSIVE decode_next(_, _), decode_list(_, _, _), decode_dict(_, _, _)
\* The "l" branch of decode_next: the loop that fills blist.
decode_list(buff, index, blist) ==
    IF peek_e(buff, index)
    THEN Decoded([t |-> "list", v |-> blist], index + 1)
    ELSE LET r == decode_next(buff, index) IN
         IF r.err # "" THEN r
         ELSE decode_list(buff, r.idx, Append(blist, r.val))

\* The "d" branch of decode_next: the loop that fills bdict; prev_key is
\* the key of the last entry.
decode_dict(buff, index, bdict) ==
    IF peek_e(buff, index)
    THEN Decoded([t |-> "dict", v |-> bdict], index + 1)
    ELSE LET key == decode_next(buff, index) IN
         IF key.err # "" THEN key
         ELSE IF key.val.t # "bytes"
         THEN Raised("UnbencodeError", key.idx)
         ELSE IF /\ bdict # <<>>
                 /\ ~BytesLess(bdict[Len(bdict)].k, key.val.v)
         THEN Raised("UnbencodeError", key.idx)
         ELSE LET value == decode_next(buff, key.idx) IN
              IF value.err # "" THEN value
              ELSE decode_dict(buff, value.idx,
                               Append(bdict, [k |-> key.val.v,
                                              val |-> value.val]))

\* Unbencoder.decode_next
decode_next(buff, index) ==
    IF index >= Len(buff) THEN Raised("UnbencodeError", index)
    ELSE LET c == buff[index + 1] IN
         CASE c = Ord.d -> decode_dict(buff, index + 1, <<>>)
           [] c = Ord.l -> decode_list(buff, index + 1, <<>>)
           [] c = Ord.i ->
                LET r == read_int(buff, index + 1, Ord.e) IN
                IF r.err # "" THEN r
                ELSE Decoded([t |-> "int", v |-> r.val], r.idx)
           [] isdigit(c) ->
                LET r == read_int(buff, index, Ord.colon) IN
                IF r.err # "" THEN r
                ELSE read_bytes(buff, r.idx, r.val)
           [] OTHER -> Raised("UnbencodeError", index + 1)

\* partial_unbencode: the value and the index where the trailing bytes
\* begin.
partial_unbencode(blob) == decode_next(blob, 0)

\* An unbencode that accepts trailing bytes.
unbencodeTrailing(blob) == partial_unbencode(blob)

\* unbencode
unbencode(blob) ==
    LET r == partial_unbencode(blob) IN
    IF r.err = "" /\ r.idx < Len(blob)
    THEN Raised("UnbencodeError", r.idx)
    ELSE r

(***************************************************************************)
(* PeerConnection.get_info: the BEP 9 loop and the validation of the info. *)
(* SHA-1 is modelled by a small rolling digest: collisions are frequent,   *)
(* so that bytes other than the torrent's info do pass the digest check.   *)
(***************************************************************************)
\* Number of values of the digest.
HashMod == 5

\* sha1.update(blob) on a digest whose state is h
RECURSIVE sha1_update(_, _)
sha1_update(h, blob) ==
    IF blob = <<>> THEN h
    ELSE sha1_update((3 * h + Head(blob)) % HashMod, Tail(blob))

\* sha1(blob).hexdigest()
sha1(blob) == sha1_update(0, blob)

\* consts.py sets INFO_CHUNK_SIZE = 16 << 10; the model scales the piece
\* size down so that an info of a few bytes has several pieces.
INFO_CHUNK_SIZE == 4

\* InfoPiecer.__attrs_post_init__: the sizes of the pieces.
sizes(total_size) ==
    [j \in 1..(total_size \div INFO_CHUNK_SIZE) |-> INFO_CHUNK_SIZE]
    \o (IF total_size % INFO_CHUNK_SIZE # 0
        THEN <<total_size % INFO_CHUNK_SIZE>> ELSE <<>>)

\* InfoPiecer(total_size)
InfoPiecer(total_size) ==
    [total_size |-> total_size, data |-> <<>>, index |-> 0, digest |-> sha1(<<>>)]

\* InfoPiecer.piece_qty
piece_qty(ip) == Len(sizes(ip.total_size))

\* An add_piece that checks the number of pieces and not their length.
add_piece_overrun(ip, piece) == ip.index >= Len(sizes(ip.total_size))

\* InfoPiecer.add_piece raises ValueError: too many pieces or wrong length.
add_piece_raises(ip, piece) ==
    \/ ip.index >= Len(sizes(ip.total_size))
    \/ Len(piece) # sizes(ip.total_size)[ip.index + 1]

\* InfoPiecer.add_piece when it does not raise.
add_piece(ip, piece) ==
    [ip EXCEPT !.data = @ \o piece,
               !.digest = sha1_update(@, piece),
               !.index = @ + 1]

\* An add_piece that extends data before it looks at the length.
add_piece_call_eager(ip, blob) ==
    IF ip.index >= Len(sizes(ip.total_size))
    THEN [ip |-> ip, exc |-> "ValueError"]
    ELSE IF Len(blob) # sizes(ip.total_size)[ip.index + 1]
    THEN [ip |-> [ip EXCEPT !.data = @ \o blob], exc |-> "ValueError"]
    ELSE [ip |-> add_piece(ip, blob), exc |-> None]

\* A call of InfoPiecer.add_piece: the InfoPiecer after it and the
\* exception it raises.
add_piece_call(ip, blob) ==
    IF add_piece_raises(ip, blob)
    THEN [ip |-> ip, exc |-> "ValueError"]
    ELSE [ip |-> add_piece(ip, blob), exc |-> None]

\* Largest total_size of an InfoPiecer observed on its own.
MaxTotalSize == 9

\* The blobs given to add_piece: every string of at most
\* INFO_CHUNK_SIZE + 1 bytes over two byte values.
PieceBlobs == UNION {[1..n -> {0, 1}] : n \in 0..(INFO_CHUNK_SIZE + 1)}

\* Length of the byte strings a peer serves that are enumerated in full.
MaxShortLen == 3

\* Every byte string of at most MaxShortLen bytes over the bytes of Ord.
ShortBlobs ==
    UNION {[1..n -> {Ord.minus, Ord.zero, Ord.one, Ord.colon,
                     Ord.d, Ord.e, Ord.i, Ord.l}] : n \in 0..MaxShortLen}

\* Longer byte strings: dicts with entries, well formed or not.
LongBlobs ==
    {<<100, 48, 58, 48, 58, 101>>,                          \* d0:0:e
     <<100, 48, 58, 48, 58, 101, 101>>,                     \* d0:0:ee
     <<100, 48, 58, 48, 58>>,                               \* d0:0:
     <<100, 48, 58, 100, 101, 101>>,                        \* d0:dee
     <<100, 48, 58, 105, 45, 101, 101>>,                    \* d0:i-ee
     <<100, 48, 58, 105, 48, 49, 101, 101>>,                \* d0:i01ee
     <<100, 48, 58, 105, 49, 48, 101, 101>>,                \* d0:i10ee
     <<100, 105, 48, 101, 48, 58, 101>>,                    \* di0e0:e
     <<100, 48, 48, 58, 48, 58, 101>>,                      \* d00:0:e
     <<108, 100, 48, 58, 48, 58, 101, 101>>,                \* ld0:0:ee
     <<100, 49, 58, 48, 48, 58, 49, 58, 49, 48, 58, 101>>,  \* d1:00:1:10:e
     <<100, 49, 58, 49, 48, 58, 49, 58, 48, 48, 58, 101>>,  \* d1:10:1:00:e
     <<100, 49, 58, 48, 48, 58, 49, 58, 48, 48, 58, 101>>}  \* d1:00:1:00:e

\* What a peer may have to serve as the info.
Blobs == ShortBlobs \cup LongBlobs

(***************************************************************************)
(* State.                                                                  *)
(***************************************************************************)
VARIABLES
    tr,            \* magnet.tr
    orch,          \* TorrentSession.get_info: [pc, md, host, outcome]
    cancelled,     \* tg.cancel_scope.cancel() has been called
    tgExc,         \* exceptions children raised into the task group tg
    pipe,          \* _peer_pipe iterating get_all_peers: [pc, item]
    trk,           \* tracker tasks (Tracker.get_peers), by index in tr
    peerWaiting,   \* senders blocked on the peer channel, in order
    peers_seen,    \* TorrentSession.peers_seen
    workers,       \* _peer_task tasks in the task group: a bag of records
    info_fetched   \* the Event shared by the workers

\* One peer connection observed on its own.
VARIABLES
    info_hash,     \* the digest of the magnet's info hash
    wire,          \* the peer: the bytes it serves and how many it has sent
    handshake,     \* the peer's extended handshake: [ut_metadata, metadata_size]
    info_piecer,   \* the InfoPiecer of get_info
    gi,            \* PeerConnection.get_info: [pc, i, info, msg, sent, nreq, nrej]
    ap             \* the last call of add_piece on an InfoPiecer that is
                   \* observed on its own: [blob, exc]

sessionVars == <<tr, orch, cancelled, tgExc, pipe, trk, peerWaiting,
                 peers_seen, workers, info_fetched>>

connVars == <<info_hash, wire, handshake, info_piecer, gi, ap>>

\* One tracker task observed on its own, with a clock.
VARIABLES
    now,           \* seconds since get_peers was called
    tk,            \* Tracker.get_peers: [pc, n, tryAt, left, stopAt, endedAt,
                   \* endedBy, cause]
    cancelledAt    \* when the orchestrator cancelled its scope: <<>> or <<time>>

clockVars == <<now, tk, cancelledAt>>

\* bencode.py observed on its own.
VARIABLES
    codec          \* [pc, obj, trailing, buff, partial, strict, again]

codecVars == <<codec>>

\* PeerConnection.handle_messages observed on its own.
VARIABLES
    hm,            \* [pc, subscribers, bep10_handshake, length, payload, msg,
                   \* notified, exc, said, handshakes]
    hs,            \* PeerConnection.handshake: [pc, reply, sent, extensions,
                   \* exc, said]
    cx             \* the three tasks of one connection: [peer_code,
                   \* piece_qty, g, i, item, h, hmsg, k, subscribers,
                   \* sending, pending, out, exc, said, result]

handlerVars == <<hm, hs, cx>>

\* PeerConnection.send_keepalives observed on its own, with a clock.
VARIABLES
    ka             \* [pc, now, wakeAt, lastOut, emitted, idle]

keepaliveVars == <<ka>>

\* One UDPTrackerSession observed on its own.
VARIABLES
    udp,           \* [pc, event, connection, kind, msg, first, n, wait,
                   \* nsent, ntimeouts, nbad, nconnects, accepted, error,
                   \* exc]
    uc             \* the session's times, when it is observed with the
                   \* clock now: [expiration, tryAt, sentAge, lapses]

udpVars == <<udp, uc>>

vars == <<sessionVars, connVars, clockVars, codecVars, handlerVars,
          keepaliveVars, udpVars>>

Trackers == 1..Len(tr)
Workers == BagToSet(workers)

\* A tracker task that exists and has not returned.
TrackerRunning(t) == trk[t].pc \notin {"nourl", "unspawned", "done"}

\* A peer worker that has not returned.
WorkerRunning(w) == w.pc # "done"

\* The part of the bag of workers that satisfies P.
Where(P(_)) == [x \in {y \in Workers : P(y)} |-> workers[x]]

\* The bag of workers with one copy of w replaced by w2.
Update(w, w2) == (workers (-) SetToBag({w})) (+) SetToBag({w2})

\* CapacityLimiter: the workers that hold a token of peer_limit.
Borrowers == Where(LAMBDA w : w.token)

\* Open clones of the peer channel's sender: one per tracker task that has
\* been given one and has not left its "async with sender", plus the
\* original until get_all_peers has spawned the trackers.
PeerSendersOpen ==
    Cardinality({t \in Trackers : trk[t].senderOpen})
    + (IF pipe.pc \in {"unspawned", "spawned"} THEN 1 ELSE 0)

\* Open clones of the info channel's sender: the original, held by
\* _peer_pipe, plus one per worker until the worker closes it.
InfoSendersOpen ==
    BagCardinality(Where(LAMBDA w : w.senderOpen))
    + (IF pipe.pc # "done" THEN 1 ELSE 0)

NewTracker(kind) ==
    [pc |-> IF kind = "bad" THEN "nourl" ELSE "unspawned",
     peers |-> <<>>, stopSent |-> FALSE, endedBy |-> None,
     senderOpen |-> FALSE]

NewWorker(p) ==
    [peer |-> p, pc |-> "acquire", result |-> None, tasks |-> {},
     token |-> FALSE, senderOpen |-> TRUE]

\* A for loop that leaves for the stopped announce after its first send.
SentOnce(task) ==
    [task EXCEPT !.pc = "stopping", !.peers = <<>>, !.stopSent = TRUE]

\* The tracker task after send(p) has returned for the head of its peers:
\* the for loop goes on with the next send, or, after the last one, enters
\* "with fail_after(TRACKER_STOP_TIMEOUT, shield=True)" and sends the
\* stopped announce; no suspension point lies in between.
Sent(task) ==
    IF Tail(task.peers) = <<>>
    THEN [task EXCEPT !.pc = "stopping", !.peers = <<>>, !.stopSent = TRUE]
    ELSE [task EXCEPT !.pc = "push", !.peers = Tail(@)]

\* TorrentSession(app, magnet) for a magnet whose tracker URLs are trs.
SessionInit(trs) ==
    /\ tr = trs
    /\ orch = [pc |-> "start", md |-> NoPeer, host |-> None, outcome |-> None]
    /\ cancelled = FALSE
    /\ tgExc = {}
    /\ pipe = [pc |-> "unspawned", item |-> NoPeer]
    /\ trk = [t \in 1..Len(tr) |-> NewTracker(tr[t])]
    /\ peerWaiting = <<>>
    /\ peers_seen = {}
    /\ workers = EmptyBag
    /\ info_fetched = FALSE

(***************************************************************************)
(* Exceptions.  A task's exit either is swallowed by the except clauses of *)
(* the code or reaches the task group, which records it and cancels its    *)
(* scope.  CancelledError is never an error of the task group.             *)
(***************************************************************************)
\* The except clauses of get_peers without "except TrackerFailure".
TrackerCaughtWithoutFailure == {"TrackerError", "TimeoutError", "OSError"}

\* except TrackerError / TrackerFailure / TimeoutError / OSError
TrackerCaught == {"TrackerError", "TrackerFailure", "TimeoutError", "OSError"}

\* What TrackerSession.announce can raise besides a timeout.
AnnounceRaises == {"TrackerError", "TrackerFailure", "OSError"}

\* _peer_task: except PeerError
PeerTaskCaught == {"PeerError"}

\* Peer.get_info turns OSError into PeerError; Peer.connect turns the
\* TimeoutError of PEER_CONNECT_TIMEOUT into PeerError.
PeerGetInfoRaises(e) ==
    IF e \in {"OSError", "TimeoutError"} THEN "PeerError" ELSE e

Escapes(e, caught) == e \notin caught \cup {None, "CancelledError"}

\* How a task ended: it returned, an except clause logged its exception,
\* it was cancelled, or its exception went to the task group.
Ending(e, caught) ==
    IF e = None THEN "return"
    ELSE IF e = "CancelledError" THEN e
    ELSE IF e \in caught THEN "logged"
    ELSE "raised"

\* A child's exception arrives in the task group; "at" is the step of the
\* child that raised it.
Raise(task, at, e) == tgExc \cup {[task |-> task, at |-> at, exc |-> e]}

(***************************************************************************)
(* TorrentSession.get_info, the orchestrator.                              *)
(***************************************************************************)
\* "if not self.magnet.tr: raise DemagnetizeError", else open the task
\* group, create the generator and the info channel, start _peer_pipe
\* and block in info_receiver.receive().
OrchStart ==
    /\ orch.pc = "start"
    /\ IF Len(tr) = 0
       THEN /\ orch' = [orch EXCEPT !.pc = "done",
                                    !.outcome = "DemagnetizeError"]
            /\ pipe' = pipe
       ELSE /\ orch' = [orch EXCEPT !.pc = "receive"]
            /\ pipe' = [pipe EXCEPT !.pc = "spawned"]
    /\ UNCHANGED <<tr, cancelled, tgExc, trk, peerWaiting, peers_seen,
                   workers, info_fetched>>

\* receive() returned md: leave "async with info_receiver" (which closes
\* the receive side and wakes every blocked sender with
\* BrokenResourceError), cancel the scope, return md into __aexit__.  If
\* the scope was cancelled before, the blocked senders already have their
\* CancelledError and end by it.
OrchReceived ==
    /\ orch.pc = "got"
    /\ orch' = [orch EXCEPT !.pc = "join", !.host = "return"]
    /\ workers' = BagOfAll(LAMBDA w : IF w.pc = "blocked" /\ ~cancelled
                                        THEN [w EXCEPT !.pc = "broken"]
                                        ELSE w,
                            workers)
    /\ cancelled' = TRUE
    /\ UNCHANGED <<tr, tgExc, pipe, trk, peerWaiting, peers_seen,
                   info_fetched>>

\* receive() raised EndOfStream: every clone of info_sender is closed.
OrchEndOfStream ==
    /\ orch.pc = "receive"
    /\ InfoSendersOpen = 0
    /\ orch' = [orch EXCEPT !.pc = "join", !.host = "DemagnetizeError"]
    /\ cancelled' = TRUE
    /\ UNCHANGED <<tr, tgExc, pipe, trk, peerWaiting, peers_seen, workers,
                   info_fetched>>

\* A child raised: the scope is cancelled and receive() raises
\* CancelledError in the host task.
OrchCancelled ==
    /\ orch.pc = "receive"
    /\ cancelled
    /\ orch' = [orch EXCEPT !.pc = "join", !.host = "CancelledError"]
    /\ UNCHANGED <<tr, cancelled, tgExc, pipe, trk, peerWaiting, peers_seen,
                   workers, info_fetched>>

\* A task group that does not wait for its children.
NoJoin == TRUE

\* "async with create_task_group() as tg" is left only when every task
\* started in tg, directly or by _peer_pipe and get_all_peers, has ended.
AllChildrenDone ==
    /\ pipe.pc = "done"
    /\ \A t \in Trackers : ~TrackerRunning(t)
    /\ \A w \in Workers : ~WorkerRunning(w)

\* The task group's __aexit__: wait for every child, then raise what the
\* children raised, else finish with what the host did.
OrchJoin ==
    /\ orch.pc = "join"
    /\ AllChildrenDone
    /\ orch' = [orch EXCEPT
                  !.pc = "done",
                  !.outcome = IF tgExc # {} THEN "raised"
                              ELSE IF orch.host = "return" THEN "returned"
                              ELSE orch.host]
    /\ UNCHANGED <<tr, cancelled, tgExc, pipe, trk, peerWaiting, peers_seen,
                   workers, info_fetched>>

(***************************************************************************)
(* _peer_pipe driving the async generator get_all_peers.                   *)
(***************************************************************************)
\* First iteration: the generator body runs, starts one tracker task per
\* URL Tracker.from_url accepts, closes the original sender and blocks in
\* the receiver.
PipeStart ==
    /\ pipe.pc = "spawned"
    /\ trk' = [t \in Trackers |->
                 IF trk[t].pc = "unspawned"
                 THEN [trk[t] EXCEPT !.pc = "start", !.senderOpen = TRUE]
                 ELSE trk[t]]
    /\ pipe' = [pipe EXCEPT !.pc = "recv"]
    /\ UNCHANGED <<tr, orch, cancelled, tgExc, peerWaiting, peers_seen,
                   workers, info_fetched>>

\* peers_seen test of get_all_peers.
Novel(p, seen) == address(p) \notin seen

\* The receiver returned p: de-duplicate, yield p to _peer_pipe, which
\* starts the worker; then receive() again: take the item of the first
\* sender blocked on the zero-sized channel and wake that sender, or block.
PipeGot ==
    /\ pipe.pc = "got"
    /\ IF Novel(pipe.item, peers_seen)
       THEN /\ peers_seen' = peers_seen \cup {address(pipe.item)}
            /\ workers' = workers (+) SetToBag({NewWorker(pipe.item)})
       ELSE UNCHANGED <<peers_seen, workers>>
    /\ IF peerWaiting # <<>> /\ ~cancelled
       THEN LET t == Head(peerWaiting) IN
              /\ pipe' = [pc |-> "got", item |-> Head(trk[t].peers)]
              /\ trk' = [trk EXCEPT ![t] = Sent(trk[t])]
              /\ peerWaiting' = Tail(peerWaiting)
       ELSE /\ pipe' = [pc |-> "recv", item |-> NoPeer]
            /\ UNCHANGED <<trk, peerWaiting>>
    /\ UNCHANGED <<tr, orch, cancelled, tgExc, info_fetched>>

\* The receiver is exhausted (every sender closed): the generator ends,
\* _peer_pipe leaves "async with aclosing(peer_aiter), info_sender".
PipeEnd ==
    /\ pipe.pc = "recv"
    /\ ~cancelled
    /\ PeerSendersOpen = 0
    /\ pipe' = [pipe EXCEPT !.pc = "done"]
    /\ UNCHANGED <<tr, orch, cancelled, tgExc, trk, peerWaiting, peers_seen,
                   workers, info_fetched>>

\* CancelledError at the receive: same exit.
PipeCancelled ==
    /\ pipe.pc = "recv"
    /\ cancelled
    /\ pipe' = [pipe EXCEPT !.pc = "done"]
    /\ UNCHANGED <<tr, orch, cancelled, tgExc, trk, peerWaiting, peers_seen,
                   workers, info_fetched>>

(***************************************************************************)
(* Tracker.get_peers, one task per tracker.                                *)
(***************************************************************************)
\* The exit of get_peers with exception e (None: normal return): the sender
\* clone is closed by "async with sender" on the way out, e is swallowed by
\* the except clauses or reaches the task group.
TrackerExit(t, e) ==
    /\ trk' = [trk EXCEPT ![t].pc = "done", ![t].peers = <<>>,
                          ![t].endedBy = Ending(e, TrackerCaught),
                          ![t].senderOpen = FALSE]
    /\ IF Escapes(e, TrackerCaught)
       THEN /\ tgExc' = Raise(<<"tracker", t>>, trk[t].pc, e)
            /\ cancelled' = TRUE
       ELSE UNCHANGED <<tgExc, cancelled>>

\* fail_after(TRACKER_TIMEOUT), "async with sender, await self.connect(app)":
\* opening the session fails with OSError, or the started announce is sent
\* and the task waits for the reply.
TrackerConnect(t) ==
    /\ trk[t].pc = "start"
    /\ ~cancelled
    /\ \/ TrackerExit(t, "OSError")
       \/ /\ trk' = [trk EXCEPT ![t].pc = "announce"]
          /\ UNCHANGED <<tgExc, cancelled>>
    /\ UNCHANGED <<tr, orch, pipe, peerWaiting, peers_seen, workers,
                   info_fetched>>

\* The reply to the started announce: its peers are kept for the for loop;
\* with no peers the task goes straight to the stopped announce.
TrackerAnnounced(t) ==
    /\ trk[t].pc = "announce"
    /\ ~cancelled
    /\ \E resp \in PeerLists :
         trk' = [trk EXCEPT
                   ![t].pc = IF resp = <<>> THEN "stopping" ELSE "push",
                   ![t].peers = resp,
                   ![t].stopSent = (resp = <<>>)]
    /\ UNCHANGED <<tr, orch, cancelled, tgExc, pipe, peerWaiting, peers_seen,
                   workers, info_fetched>>

\* The started announce fails: error reply, transport error, bad response.
TrackerAnnounceFails(t) ==
    /\ trk[t].pc = "announce"
    /\ ~cancelled
    /\ \E e \in AnnounceRaises : TrackerExit(t, e)
    /\ UNCHANGED <<tr, orch, pipe, peerWaiting, peers_seen, workers,
                   info_fetched>>

\* "await sender.send(p)" on the zero-sized peer channel: hand p to the
\* receiver blocked in receive(), or block until the receiver takes it.
TrackerPush(t) ==
    /\ trk[t].pc = "push"
    /\ ~cancelled
    /\ IF pipe.pc = "recv"
       THEN /\ pipe' = [pc |-> "got", item |-> Head(trk[t].peers)]
            /\ trk' = [trk EXCEPT ![t] = Sent(trk[t])]
            /\ peerWaiting' = peerWaiting
       ELSE /\ trk' = [trk EXCEPT ![t].pc = "blocked"]
            /\ peerWaiting' = Append(peerWaiting, t)
            /\ pipe' = pipe
    /\ UNCHANGED <<tr, orch, cancelled, tgExc, peers_seen, workers,
                   info_fetched>>

\* A stopped announce outside any shielded scope.
StopUnshielded == FALSE

\* fail_after(TRACKER_STOP_TIMEOUT, shield=True): the stopped announce is
\* shielded from the cancellation of the enclosing scopes.
StopShielded == TRUE

\* The stopped announce ends: by its reply, by an error, or by its own
\* TRACKER_STOP_TIMEOUT.
TrackerStopped(t) ==
    /\ trk[t].pc = "stopping"
    /\ \E e \in AnnounceRaises \cup {None, "TimeoutError"} :
         TrackerExit(t, e)
    /\ UNCHANGED <<tr, orch, pipe, peerWaiting, peers_seen, workers,
                   info_fetched>>

Without(q, x) == SelectSeq(q, LAMBDA y : y # x)

\* TRACKER_TIMEOUT expires while the task waits for the reply or in a send.
TrackerTimeout(t) ==
    /\ trk[t].pc \in {"announce", "push", "blocked"}
    /\ ~cancelled
    /\ TrackerExit(t, "TimeoutError")
    /\ peerWaiting' = Without(peerWaiting, t)
    /\ UNCHANGED <<tr, orch, pipe, peers_seen, workers, info_fetched>>

\* The orchestrator's scope is cancelled: CancelledError at the suspension
\* point the task is in, unless that is the shielded stopped announce.
TrackerCancelled(t) ==
    /\ cancelled
    /\ \/ trk[t].pc \in {"start", "announce", "push", "blocked"}
       \/ trk[t].pc = "stopping" /\ ~StopShielded
    /\ TrackerExit(t, "CancelledError")
    /\ peerWaiting' = Without(peerWaiting, t)
    /\ UNCHANGED <<tr, orch, pipe, peers_seen, workers, info_fetched>>

(***************************************************************************)
(* TorrentSession._peer_task, one task per novel peer, around              *)
(* Peer.get_info / Peer.connect / PeerConnection.                          *)
(***************************************************************************)
\* The exit of _peer_task with exception e (None: normal end), leaving
\* "async with self.peer_limit, info_sender": the clone is closed and the
\* token given back; the connection's task group, if one was opened, has
\* joined its tasks before.  PeerError is logged; anything else reaches the
\* orchestrator's task group.
WorkerExit(w, e) ==
    /\ workers' = Update(w, [w EXCEPT
                     !.pc = "done",
                     !.result = Ending(e, PeerTaskCaught),
                     !.tasks = {},
                     !.token = FALSE,
                     !.senderOpen = FALSE])
    /\ IF Escapes(e, PeerTaskCaught)
       THEN /\ tgExc' = Raise(<<"worker", w.peer>>, w.pc, e)
            /\ cancelled' = TRUE
       ELSE UNCHANGED <<tgExc, cancelled>>

\* A limiter that never makes a worker wait.
Unlimited == TRUE

\* peer_limit has a free token (CapacityLimiter.acquire).
HasToken == BagCardinality(Borrowers) < PEERS_PER_MAGNET_LIMIT

\* An event nobody sets.
never_set == FALSE

\* info_fetched.is_set()
is_set == info_fetched

\* "async with self.peer_limit, info_sender": take a token, then either
\* end at once because info_fetched is set, or start connecting.
WorkerAcquire(w) ==
    /\ w.pc = "acquire"
    /\ ~cancelled
    /\ HasToken
    /\ IF is_set
       THEN WorkerExit(w, None)
       ELSE /\ workers' = Update(w, [w EXCEPT !.pc = "connect",
                                               !.token = TRUE])
            /\ UNCHANGED <<tgExc, cancelled>>
    /\ UNCHANGED <<tr, orch, pipe, trk, peerWaiting, peers_seen,
                   info_fetched>>

\* What Peer.connect raises before it yields the connection: connect_tcp
\* is refused (OSError) or exceeds PEER_CONNECT_TIMEOUT (TimeoutError);
\* PeerConnection.handshake finds the connection closed, a bad handshake, a
\* wrong info hash or no BEP 10 bit (PeerError); socket.send of the
\* handshake or of the extended handshake fails because the peer has reset
\* the connection (BrokenResourceError).
ConnectRaises == {"OSError", "TimeoutError", "PeerError", "BrokenResourceError"}

\* The tasks start_tasks puts in the connection's task group.
ConnTasks == {"handle_messages", "send_keepalives"}

\* Peer.connect up to "yield conn": it fails, or the handshakes are done
\* and start_tasks starts handle_messages and send_keepalives.
WorkerConnect(w) ==
    /\ w.pc = "connect"
    /\ ~cancelled
    /\ \/ \E e \in ConnectRaises : WorkerExit(w, PeerGetInfoRaises(e))
       \/ /\ workers' = Update(w, [w EXCEPT !.pc = "exchange",
                                        !.tasks = ConnTasks])
          /\ UNCHANGED <<tgExc, cancelled>>
    /\ UNCHANGED <<tr, orch, pipe, trk, peerWaiting, peers_seen,
                   info_fetched>>

\* How PeerConnection.get_info ends in the host task of the connection: it
\* returns a validated info ("info"), a check fails (PeerError), or the
\* send of a request or of a reject fails because the peer has reset the
\* connection (BrokenResourceError).
GetInfoEnds == {"info", "PeerError", "BrokenResourceError"}

\* PeerConnection.get_info ends while handle_messages is delivering
\* messages.  Leaving "async with PeerConnection" cancels the connection's
\* task group.
WorkerGetInfo(w) ==
    /\ w.pc = "exchange"
    /\ "handle_messages" \in w.tasks
    /\ ~cancelled
    /\ \E r \in GetInfoEnds :
         workers' = Update(w, [w EXCEPT !.pc = "closing", !.result = r])
    /\ UNCHANGED <<tr, orch, cancelled, tgExc, pipe, trk, peerWaiting,
                   peers_seen, info_fetched>>

\* handle_messages raises PeerError (invalid, oversized or unexpected
\* message): the connection's task group cancels the host task.
HandlerFails(w) ==
    /\ w.pc = "exchange"
    /\ "handle_messages" \in w.tasks
    /\ ~cancelled
    /\ workers' = Update(w, [w EXCEPT !.pc = "closing",
                                  !.tasks = @ \ {"handle_messages"},
                                  !.result = "PeerError"])
    /\ UNCHANGED <<tr, orch, cancelled, tgExc, pipe, trk, peerWaiting,
                   peers_seen, info_fetched>>

\* The peer closes the connection: aiter_messages swallows the PeerError
\* of read(4) and returns, handle_messages ends without raising, and
\* get_info keeps waiting.
HandlerEnds(w) ==
    /\ w.pc = "exchange"
    /\ "handle_messages" \in w.tasks
    /\ ~cancelled
    /\ workers' = Update(w, [w EXCEPT !.tasks = @ \ {"handle_messages"}])
    /\ UNCHANGED <<tr, orch, cancelled, tgExc, pipe, trk, peerWaiting,
                   peers_seen, info_fetched>>

\* send_keepalives: socket.send fails with BrokenResourceError after the
\* peer has reset the connection.
KeepaliveFails(w) ==
    /\ w.pc = "exchange"
    /\ "send_keepalives" \in w.tasks
    /\ ~cancelled
    /\ workers' = Update(w, [w EXCEPT !.pc = "closing",
                                  !.tasks = @ \ {"send_keepalives"},
                                  !.result = "BrokenResourceError"])
    /\ UNCHANGED <<tr, orch, cancelled, tgExc, pipe, trk, peerWaiting,
                   peers_seen, info_fetched>>

\* The tasks of the connection's task group have been cancelled at their
\* suspension points (the read of handle_messages, the sleep of
\* send_keepalives), the group has joined them and the socket is closed:
\* Peer.get_info ends with the result.  A validated info sets info_fetched
\* and goes to "await info_sender.send(info)" on the zero-sized info
\* channel: the info is handed to the orchestrator if that is blocked in
\* receive(), else the worker blocks.
WorkerClosed(w) ==
    /\ w.pc = "closing"
    /\ ~cancelled
    /\ IF w.result = "info"
       THEN /\ info_fetched' = TRUE
            /\ IF orch.pc = "receive"
               THEN /\ orch' = [orch EXCEPT !.pc = "got", !.md = w.peer]
                    /\ WorkerExit(w, None)
               ELSE /\ workers' = Update(w, [w EXCEPT !.pc = "blocked",
                                                  !.tasks = {}])
                    /\ UNCHANGED <<orch, tgExc, cancelled>>
       ELSE /\ WorkerExit(w, PeerGetInfoRaises(w.result))
            /\ UNCHANGED <<orch, info_fetched>>
    /\ UNCHANGED <<tr, pipe, trk, peerWaiting, peers_seen>>

\* The sender was blocked when the receive side was closed: send() raises
\* BrokenResourceError, which no except clause of _peer_task covers.
WorkerBroken(w) ==
    /\ w.pc = "broken"
    /\ WorkerExit(w, "BrokenResourceError")
    /\ UNCHANGED <<tr, orch, pipe, trk, peerWaiting, peers_seen,
                   info_fetched>>

\* The orchestrator's scope is cancelled: CancelledError at the suspension
\* point of the worker.  A worker cancelled while waiting for a token has
\* not entered info_sender and does not close it.  A worker in get_info
\* first leaves "async with PeerConnection" and joins the connection's
\* tasks; a BrokenResourceError already on its way out of the connection
\* may still arrive in the task group.
WorkerCancelled(w) ==
    /\ cancelled
    /\ w.pc \in {"acquire", "connect", "exchange", "closing",
                          "blocked"}
    /\ CASE w.pc = "acquire" ->
              /\ workers' = Update(w, [w EXCEPT !.pc = "done",
                                            !.result = "CancelledError"])
              /\ UNCHANGED <<tgExc, cancelled>>
         [] w.pc = "exchange" ->
              /\ workers' = Update(w, [w EXCEPT !.pc = "closing",
                                            !.result = "CancelledError"])
              /\ UNCHANGED <<tgExc, cancelled>>
         [] w.pc = "closing" ->
              \E e \in {"CancelledError"} \cup
                       ({w.result} \cap {"BrokenResourceError"}) :
                  WorkerExit(w, e)
         [] OTHER -> WorkerExit(w, "CancelledError")
    /\ UNCHANGED <<tr, orch, pipe, trk, peerWaiting, peers_seen,
                   info_fetched>>

(***************************************************************************)
(* One connection: PeerConnection.get_info against a peer that serves the  *)
(* bytes wire.blob in pieces of its choice.                                *)
(***************************************************************************)
\* An Optional[int]: <<>> is None, <<n>> is n.
Optional(S) == {<<>>} \cup {<<n>> : n \in S}

\* extensions.py: BEP9MsgType
BEP9MsgType == [REQUEST |-> 0, DATA |-> 1, REJECT |-> 2]

\* Largest msg_type a peer sends: those above REJECT are unknown.
MaxMsgType == 3

\* How many requests of the peer are followed.
MaxRejects == 1

\* A ut_metadata message received: msg_type, piece, total_size (Optional),
\* the length of the payload, and whether its bencoded head is well formed.
BEP9Message(msg_type, piece, total_size, len, valid) ==
    [msg_type |-> msg_type, piece |-> piece, total_size |-> total_size,
     len |-> len, valid |-> valid]

\* No message yet.
NoMessage == BEP9Message(0 - 1, 0, <<>>, 0, FALSE)

\* BEP9Message.parse: the exception it raises ("" for none).
BEP9Parse(m) ==
    IF ~m.valid THEN "ValueError"
    ELSE IF m.msg_type \notin {BEP9MsgType.REQUEST, BEP9MsgType.DATA,
                               BEP9MsgType.REJECT}
    THEN "UnknownBEP9MsgType"
    ELSE ""

\* The message sent to the peer last: a request or a reject for a piece.
Sending(kind, piece) == [kind |-> kind, piece |-> piece]

\* No call of add_piece yet.
NoCall == [blob |-> <<>>, exc |-> "none"]

\* InfoPiecer(total_size) has been made.
PiecerInit ==
    /\ info_piecer \in {InfoPiecer(total_size) : total_size \in 0..MaxTotalSize}
    /\ ap = NoCall

\* info_piecer.add_piece(blob)
AddPiece ==
    \E blob \in PieceBlobs :
        /\ info_piecer' = add_piece_call(info_piecer, blob).ip
        /\ ap' = [blob |-> blob, exc |-> add_piece_call(info_piecer, blob).exc]
        /\ UNCHANGED <<info_hash, wire, handshake, gi>>

\* No connection: the values of the connection's variables in a session
\* that is observed without them.
ConnIdle ==
    /\ info_hash = 0
    /\ wire = [blob |-> <<>>, served |-> 0]
    /\ handshake = [ut_metadata |-> FALSE, metadata_size |-> <<>>]
    /\ info_piecer = InfoPiecer(0)
    /\ gi = [pc |-> "idle", i |-> 0, info |-> NoValue, msg |-> NoMessage,
             sent |-> Sending("none", 0), nreq |-> 0, nrej |-> 0]
    /\ ap = NoCall

\* get_info has ended by raising e.
GetInfoRaise(e) == gi' = [gi EXCEPT !.pc = e]

\* get_info has ended by raising e on the message m.
GetInfoFail(e, m) == gi' = [gi EXCEPT !.pc = e, !.msg = m]

\* A get_info that does not look for ut_metadata in the handshake.
GetInfoHandshakeUnchecked ==
    /\ gi.pc = "handshake"
    /\ IF handshake.metadata_size = <<>>
       THEN /\ GetInfoRaise("PeerError")
            /\ UNCHANGED info_piecer
       ELSE /\ info_piecer' = InfoPiecer(handshake.metadata_size[1])
            /\ gi' = [gi EXCEPT !.pc = "request"]
    /\ UNCHANGED <<info_hash, wire, handshake>>

\* The extended handshake has arrived: the checks before the loop, then
\* InfoPiecer(handshake.metadata_size).
GetInfoHandshake ==
    /\ gi.pc = "handshake"
    /\ IF ~handshake.ut_metadata \/ handshake.metadata_size = <<>>
       THEN /\ GetInfoRaise("PeerError")
            /\ UNCHANGED info_piecer
       ELSE /\ info_piecer' = InfoPiecer(handshake.metadata_size[1])
            /\ gi' = [gi EXCEPT !.pc = "request"]
    /\ UNCHANGED <<info_hash, wire, handshake>>

\* "for i in range(info_piecer.piece_qty)": send the request for piece i,
\* which fails if the peer has reset the connection; after the last piece
\* go on to the validation.
GetInfoRequest ==
    /\ gi.pc = "request"
    /\ IF gi.i < piece_qty(info_piecer)
       THEN \/ gi' = [gi EXCEPT !.pc = "receive", !.nreq = @ + 1,
                                !.sent = Sending("request", gi.i)]
            \/ GetInfoRaise("BrokenResourceError")
       ELSE gi' = [gi EXCEPT !.pc = "validate"]
    /\ UNCHANGED <<info_hash, wire, handshake, info_piecer>>

\* A for loop that asks for the same piece again.
SamePiece(i) == i

\* "break": the for loop goes on with the next i.
NextPiece(i) == i + 1

\* A data message: piece index, optional total_size and the next k bytes
\* the peer serves.
GetInfoData ==
    /\ gi.pc = "receive"
    /\ \E piece \in {gi.i, gi.i + 1},
          total_size \in Optional({info_piecer.total_size,
                                   info_piecer.total_size + 1}),
          k \in 0..(INFO_CHUNK_SIZE + 1) :
         /\ wire.served + k <= Len(wire.blob)
         /\ LET payload == SubSeq(wire.blob, wire.served + 1,
                                  wire.served + k)
                m == BEP9Message(BEP9MsgType.DATA, piece, total_size, k, TRUE)
            IN IF \/ piece # gi.i
                  \/ total_size # <<>>
                     /\ total_size[1] # info_piecer.total_size
                  \/ add_piece_raises(info_piecer, payload)
               THEN /\ GetInfoFail("PeerError", m)
                    /\ UNCHANGED <<wire, info_piecer>>
               ELSE /\ info_piecer' = add_piece(info_piecer, payload)
                    /\ wire' = [wire EXCEPT !.served = @ + k]
                    /\ gi' = [gi EXCEPT !.pc = "request",
                                        !.i = NextPiece(@), !.msg = m]
    /\ UNCHANGED <<info_hash, handshake>>

\* A reject message: an error if it is for another piece, else only logged.
GetInfoReject ==
    /\ gi.pc = "receive"
    /\ \E piece \in {gi.i, gi.i + 1} :
         LET m == BEP9Message(BEP9MsgType.REJECT, piece, <<>>, 0, TRUE) IN
         IF piece # gi.i
         THEN GetInfoFail("PeerError", m)
         ELSE gi' = [gi EXCEPT !.msg = m]
    /\ UNCHANGED <<info_hash, wire, handshake, info_piecer>>

\* A reject for the piece the core is waiting for.
RejectOutstanding(piece) == Sending("reject", gi.i)

\* BEP9Message(msg_type=BEP9MsgType.REJECT, piece=bm.piece)
RejectFor(piece) == Sending("reject", piece)

\* A request from the peer: a reject is sent back, which fails if the peer
\* has reset the connection.
GetInfoPeerRequest ==
    /\ gi.pc = "receive"
    /\ gi.nrej < MaxRejects
    /\ \E piece \in {gi.i, gi.i + 1} :
         LET m == BEP9Message(BEP9MsgType.REQUEST, piece, <<>>, 0, TRUE) IN
         \/ gi' = [gi EXCEPT !.msg = m, !.sent = RejectFor(piece),
                             !.nrej = @ + 1]
         \/ GetInfoFail("BrokenResourceError", m)
    /\ UNCHANGED <<info_hash, wire, handshake, info_piecer>>

\* A ut_metadata message with an unknown msg_type taken for an error.
GetInfoOtherFails ==
    /\ gi.pc = "receive"
    /\ \E msg_type \in 0..MaxMsgType, valid \in BOOLEAN :
         LET m == BEP9Message(msg_type, gi.i, <<>>, 0, valid) IN
         /\ BEP9Parse(m) # ""
         /\ GetInfoFail("PeerError", m)
    /\ UNCHANGED <<info_hash, wire, handshake, info_piecer>>

\* A ut_metadata message with an unknown msg_type is ignored; one that does
\* not parse is an error.
GetInfoOther ==
    /\ gi.pc = "receive"
    /\ \E msg_type \in 0..MaxMsgType, valid \in BOOLEAN :
         LET m == BEP9Message(msg_type, gi.i, <<>>, 0, valid) IN
         /\ BEP9Parse(m) # ""
         /\ IF BEP9Parse(m) = "UnknownBEP9MsgType"
            THEN gi' = [gi EXCEPT !.msg = m]
            ELSE GetInfoFail("PeerError", m)
    /\ UNCHANGED <<info_hash, wire, handshake, info_piecer>>

\* After the loop: the digest check, unbencode and the assertion that the
\* value is a dict.  UnbencodeError and AssertionError become PeerError;
\* the ValueError of int() is not caught here.
GetInfoValidate ==
    /\ gi.pc = "validate"
    /\ IF info_hash # info_piecer.digest
       THEN GetInfoRaise("PeerError")
       ELSE LET r == unbencode(info_piecer.data) IN
            IF r.err = "UnbencodeError" THEN GetInfoRaise("PeerError")
            ELSE IF r.err # "" THEN GetInfoRaise(r.err)
            ELSE IF r.val.t # "dict" THEN GetInfoRaise("PeerError")
            ELSE gi' = [gi EXCEPT !.pc = "returned", !.info = r.val]
    /\ UNCHANGED <<info_hash, wire, handshake, info_piecer>>

(***************************************************************************)
(* One tracker task with time: Tracker.get_peers over a UDP session, with  *)
(* a clock in seconds.  A timeout fires when its deadline is reached: the  *)
(* clock does not pass a deadline that is in force.                        *)
(***************************************************************************)
\* consts.py
TRACKER_TIMEOUT == 30

\* consts.py
TRACKER_STOP_TIMEOUT == 3

\* The clock stops here.
MaxClock == 40

\* No tracker task: the values of the clock's variables in a session that
\* is observed without them.
ClockIdle ==
    /\ now = 0
    /\ tk = [pc |-> "idle", n |-> 0, tryAt |-> 0, left |-> 0, stopAt |-> 0,
             endedAt |-> 0, endedBy |-> None, cause |-> None]
    /\ cancelledAt = <<>>

\* send_receive: "with fail_after(15 << n)" around socket.receive().
TryTimeout(n) == 15 * (2 ^ n)

\* A stopped announce with no timeout of its own.
WithoutStopTimeout(enteredAt) == MaxClock

\* fail_after(TRACKER_STOP_TIMEOUT, shield=True) entered at enteredAt.
StopDeadline(enteredAt) == enteredAt + TRACKER_STOP_TIMEOUT

\* The task is in send_receive, waiting for a datagram.
InSendReceive == tk.pc \in {"connecting", "announce", "stopping"}

\* The stopped announce shielded from nothing.
AlwaysInForce == tk.pc \in {"open", "connecting", "announce", "push", "stopping"}

\* fail_after(TRACKER_TIMEOUT), or the cancellation of the orchestrator's
\* scope, can cancel the task where it is: it cannot inside the shielded
\* scope of the stopped announce.
OuterInForce ==
    \/ tk.pc \in {"open", "connecting", "announce", "push"}
    \/ (tk.pc = "stopping" /\ ~StopShielded)

\* The deadlines in force.
Deadlines ==
    (IF OuterInForce THEN {TRACKER_TIMEOUT} ELSE {})
    \cup (IF tk.pc = "stopping" THEN {StopDeadline(tk.stopAt)} ELSE {})
    \cup (IF InSendReceive THEN {tk.tryAt + TryTimeout(tk.n)} ELSE {})
    \cup (IF OuterInForce /\ cancelledAt # <<>> THEN {cancelledAt[1]} ELSE {})

\* A second passes.
Tick ==
    /\ tk.pc \notin {"idle", "done"}
    /\ now < MaxClock
    /\ \A d \in Deadlines : now < d
    /\ now' = now + 1
    /\ UNCHANGED <<tk, cancelledAt>>

\* get_peers ends with exception e (None: normal return); cause is what
\* ended it: a reply, an error, one of the two timeouts or the cancellation.
GetPeersExit(e, cause) ==
    /\ tk' = [tk EXCEPT !.pc = "done", !.endedAt = now,
                        !.endedBy = Ending(e, TrackerCaught),
                        !.cause = cause]
    /\ UNCHANGED <<now, cancelledAt>>

\* A send_receive begins: the message is sent, n = 0.
SendReceive(pc) == [tk EXCEPT !.pc = pc, !.n = 0, !.tryAt = now]

\* "await self.connect(app)": the socket is created and announce() sends
\* the connection request, or creating the socket fails.
GetPeersOpen ==
    /\ tk.pc = "open"
    /\ \/ tk' = SendReceive("connecting") /\ UNCHANGED <<now, cancelledAt>>
       \/ GetPeersExit("OSError", "error")

\* get_connection: the connection response arrives; the started announce
\* is sent.
GetConnection ==
    /\ tk.pc = "connecting"
    /\ tk' = SendReceive("announce")
    /\ UNCHANGED <<now, cancelledAt>>

\* send_receive: no datagram within 15 << n seconds: n grows up to 8 and
\* the message is sent again.
SendReceiveTimeout ==
    /\ InSendReceive
    /\ now >= tk.tryAt + TryTimeout(tk.n)
    /\ tk' = [tk EXCEPT !.n = IF @ < 8 THEN @ + 1 ELSE @, !.tryAt = now]
    /\ UNCHANGED <<now, cancelledAt>>

\* send_receive: a datagram that does not parse: the message is sent again
\* with the same n.  A datagram that is an error response raises
\* TrackerFailure.
SendReceiveBadResponse ==
    /\ InSendReceive
    /\ \/ tk' = [tk EXCEPT !.tryAt = now] /\ UNCHANGED <<now, cancelledAt>>
       \/ GetPeersExit("TrackerFailure", "error")

\* The stopped announce begins, in its shielded scope.
EnterStop == [SendReceive("stopping") EXCEPT !.left = 0, !.stopAt = now]

\* The response to the started announce, with k peers.
Announced ==
    /\ tk.pc = "announce"
    /\ \E k \in 0..MaxPeersPerAnnounce :
         tk' = IF k = 0 THEN EnterStop
               ELSE [tk EXCEPT !.pc = "push", !.left = k]
    /\ UNCHANGED <<now, cancelledAt>>

\* "await sender.send(p)" returns; after the last peer the stopped announce
\* begins.
Pushed ==
    /\ tk.pc = "push"
    /\ tk' = IF tk.left = 1 THEN EnterStop ELSE [tk EXCEPT !.left = @ - 1]
    /\ UNCHANGED <<now, cancelledAt>>

\* The stopped announce ends by its response or by an error.
Stopped ==
    /\ tk.pc = "stopping"
    /\ \/ GetPeersExit(None, "reply")
       \/ \E e \in AnnounceRaises : GetPeersExit(e, "error")

\* TRACKER_STOP_TIMEOUT expires.
StopTimeout ==
    /\ tk.pc = "stopping"
    /\ now >= StopDeadline(tk.stopAt)
    /\ GetPeersExit("TimeoutError", "TRACKER_STOP_TIMEOUT")

\* TRACKER_TIMEOUT expires where it can cancel the task.
GetPeersTimeout ==
    /\ OuterInForce
    /\ now >= TRACKER_TIMEOUT
    /\ GetPeersExit("TimeoutError", "TRACKER_TIMEOUT")

\* TorrentSession.get_info cancels its scope while the task runs.
ScopeCancelled ==
    /\ tk.pc \notin {"idle", "done"}
    /\ cancelledAt = <<>>
    /\ cancelledAt' = <<now>>
    /\ UNCHANGED <<now, tk>>

\* The cancellation is delivered where it can cancel the task.
GetPeersCancelled ==
    /\ cancelledAt # <<>>
    /\ OuterInForce
    /\ tk' = [tk EXCEPT !.pc = "done", !.endedAt = now,
                        !.endedBy = "CancelledError", !.cause = "cancelled"]
    /\ UNCHANGED <<now, cancelledAt>>

(***************************************************************************)
(* bencode.py on its own: a value is encoded, bytes are appended to it and *)
(* the result is decoded; or a byte string is decoded and its value is     *)
(* encoded again.                                                          *)
(***************************************************************************)
\* Longest list, and most entries of a dict, among the values encoded.
MaxItems == 2

\* Length of the byte strings decoded that are enumerated in full.
MaxBuffLen == 4

\* Unbencoder.get_trailing
get_trailing(buff, index) == SubSeq(buff, index + 1, Len(buff))

\* == of two values: dicts are equal when they have the same keys with
\* equal values, whatever the order of insertion.
RECURSIVE PyEq(_, _)
PyEq(a, b) ==
    /\ a.t = b.t
    /\ CASE a.t = "list" ->
              /\ Len(a.v) = Len(b.v)
              /\ \A j \in 1..Len(a.v) : PyEq(a.v[j], b.v[j])
         [] a.t = "dict" ->
              /\ Len(a.v) = Len(b.v)
              /\ \A j \in 1..Len(a.v) : \E k \in 1..Len(b.v) :
                   a.v[j].k = b.v[k].k /\ PyEq(a.v[j].val, b.v[k].val)
         [] OTHER -> a.v = b.v

\* int and bytes objects
Atoms ==
    [t : {"int"}, v : {0 - 10, 0 - 1, 0, 1, 10}]
    \cup [t : {"bytes"}, v : {<<>>, <<Ord.zero>>, <<Ord.e>>, <<Ord.one, Ord.colon>>}]

\* Keys of the dicts encoded.
Keys == {<<>>, <<Ord.zero>>, <<Ord.one>>, <<Ord.zero, Ord.zero>>}

\* Lists of items of S.
ListsOf(S) == [t : {"list"}, v : UNION {[1..n -> S] : n \in 0..MaxItems}]

\* Dicts with values of S: the keys are distinct, in any order of
\* insertion.
DictsOf(S) ==
    [t : {"dict"},
     v : {es \in UNION {[1..n -> [k : Keys, val : S]] : n \in 0..MaxItems} :
            \A j, k \in 1..Len(es) : j # k => es[j].k # es[k].k}]

\* Atoms, and lists and dicts of atoms.
Flat == Atoms \cup ListsOf(Atoms) \cup DictsOf(Atoms)

\* The values encoded: also a list of one flat value and a dict with one
\* entry whose value is flat.
Values ==
    Flat
    \cup [t : {"list"}, v : {<<x>> : x \in Flat}]
    \cup [t : {"dict"}, v : {<<[k |-> k, val |-> x]>> : k \in Keys, x \in Flat}]

\* The bytes appended to an encoding.
Trailings ==
    {<<>>, <<Ord.e>>, <<Ord.zero>>, <<Ord.one, Ord.colon>>,
     <<Ord.i, Ord.one, Ord.e>>}

\* The byte strings decoded.
Buffs ==
    UNION {[1..n -> {Ord.minus, Ord.zero, Ord.one, Ord.colon,
                     Ord.d, Ord.e, Ord.i, Ord.l}] : n \in 0..MaxBuffLen}
    \cup LongBlobs

\* No call of bencode or of a decoder.
CodecIdle ==
    codec = [pc |-> "idle", obj |-> NoValue, trailing |-> <<>>, buff |-> <<>>,
             partial |-> Raised("", 0), strict |-> Raised("", 0),
             again |-> <<>>]

\* A call is about to be made: bencode(obj), or a decoder on buff.
CodecInit ==
    \/ \E v \in Values, t \in Trailings :
         codec = [pc |-> "bencode", obj |-> v, trailing |-> t, buff |-> <<>>,
                  partial |-> Raised("", 0), strict |-> Raised("", 0),
                  again |-> <<>>]
    \/ \E b \in Buffs :
         codec = [pc |-> "decode", obj |-> NoValue, trailing |-> <<>>,
                  buff |-> b,
                  partial |-> Raised("", 0), strict |-> Raised("", 0),
                  again |-> <<>>]

\* bencode(obj) + trailing
CodecBencode ==
    /\ codec.pc = "bencode"
    /\ codec' = [codec EXCEPT !.pc = "decode",
                              !.buff = bencode(codec.obj) \o codec.trailing]

\* partial_unbencode(buff)
CodecPartialUnbencode ==
    /\ codec.pc = "decode"
    /\ codec' = [codec EXCEPT !.pc = "partial",
                              !.partial = partial_unbencode(codec.buff)]

\* unbencode(buff)
CodecUnbencode ==
    /\ codec.pc = "partial"
    /\ codec' = [codec EXCEPT !.pc = "strict",
                              !.strict = unbencode(codec.buff)]

\* bencode(value) + trailing for the (value, trailing) partial_unbencode
\* returned.
CodecReencode ==
    /\ codec.pc = "strict"
    /\ codec.partial.err = ""
    /\ codec' = [codec EXCEPT
                   !.pc = "done",
                   !.again = bencode(codec.partial.val)
                             \o get_trailing(codec.buff, codec.partial.idx)]

(***************************************************************************)
(* PeerConnection.handshake.                                               *)
(***************************************************************************)
\* SUPPORTED_EXTENSIONS
SUPPORTED_EXTENSIONS == {"BEP10_EXTENSIONS", "FAST"}

\* The handshake of the peer: whether its 68 bytes arrive before the peer
\* closes, whether it starts with Handshake.HEADER, whether its info hash
\* is ours, and the extensions whose bits are set in its reserved bytes.
PeerHandshakes ==
    [arrives : BOOLEAN, header : BOOLEAN, info_hash : BOOLEAN,
     extensions : SUBSET {"BEP10_EXTENSIONS", "FAST", "DHT"}]

\* Handshake.parse on the 68 bytes read: ValueError for a wrong protocol
\* declaration, else the handshake with its set of extensions.
HandshakeParse(r) ==
    IF r.header THEN [err |-> None, extensions |-> r.extensions]
    ELSE [err |-> "ValueError", extensions |-> {}]

\* No handshake under way.
NoHandshake ==
    [pc |-> "idle",
     reply |-> [arrives |-> FALSE, header |-> FALSE, info_hash |-> FALSE,
                extensions |-> {}],
     sent |-> <<>>, extensions |-> {}, exc |-> None, said |-> None]

\* handshake() ends with exception e, whose message is said.
HandshakeRaise(e, said) ==
    hs' = [hs EXCEPT !.pc = "raised", !.exc = e, !.said = said]

\* socket.send of message m: it is sent, or the send fails because the peer
\* has reset the connection.
HandshakeSendOr(m, pc) ==
    \/ hs' = [hs EXCEPT !.pc = pc, !.sent = Append(@, m)]
    \/ HandshakeRaise("BrokenResourceError", None)

\* await self.socket.send(bytes(Handshake(...)))
HandshakeSend ==
    /\ hs.pc = "send"
    /\ HandshakeSendOr("Handshake", "read")
    /\ UNCHANGED hm

\* A handshake that sends have_none to every peer.
HaveNoneAlways(extensions) == TRUE

\* if Extension.FAST in self.extensions
HaveNoneDue(extensions) == "FAST" \in extensions

\* r = await self.read(Handshake.LENGTH), Handshake.parse(r) and the checks
\* of the info hash and of the BEP 10 bit.
HandshakeRead ==
    /\ hs.pc = "read"
    /\ LET parsed == HandshakeParse(hs.reply)
           extensions == SUPPORTED_EXTENSIONS \cap parsed.extensions
       IN  IF ~hs.reply.arrives
           THEN HandshakeRaise("PeerError",
                               "Peer closed the connection early")
           ELSE IF parsed.err # None
           THEN HandshakeRaise("PeerError", "Peer sent bad handshake")
           ELSE IF ~hs.reply.info_hash
           THEN HandshakeRaise("PeerError",
                               "Peer replied with wrong info hash")
           ELSE IF "BEP10_EXTENSIONS" \notin extensions
           THEN hs' = [hs EXCEPT
                    !.pc = "raised", !.exc = "PeerError",
                    !.said = "Peer does not support BEP 10 extensions",
                    !.extensions = extensions]
           ELSE hs' = [hs EXCEPT !.pc = "extended",
                                 !.extensions = extensions]
    /\ UNCHANGED hm

\* self.subscribers.append(ExtendedHandshakeSubscriber(self)) and
\* await self.send(handshake.compose())
HandshakeSendExtended ==
    /\ hs.pc = "extended"
    /\ HandshakeSendOr("ExtendedHandshake",
                       IF HaveNoneDue(hs.extensions)
                       THEN "have_none" ELSE "done")
    /\ hm' = [hm EXCEPT !.subscribers = {"ExtendedHandshakeSubscriber"}]

\* await self.send(HaveNone())
HandshakeSendHaveNone ==
    /\ hs.pc = "have_none"
    /\ HandshakeSendOr("HaveNone", "done")
    /\ UNCHANGED hm

(***************************************************************************)
(* PeerConnection.handle_messages and its subscribers.                     *)
(***************************************************************************)
UT_METADATA == 42
MAX_PEER_MSG_LEN == 65535
MaxType == 21

\* Message.TYPE of each subclass of Message.
TYPE ==
    [Choke |-> 0, Unchoke |-> 1, Interested |-> 2, NotInterested |-> 3,
     Have |-> 4, Bitfield |-> 5, Request |-> 6, Piece |-> 7, Cancel |-> 8,
     Port |-> 9, Suggest |-> 13, HaveAll |-> 14, HaveNone |-> 15,
     Reject |-> 16, AllowedFast |-> 17, Extended |-> 20]

EmptyMessage ==
    {"Choke", "Unchoke", "Interested", "NotInterested", "HaveAll", "HaveNone"}

\* The length prefixes the peer sends: a keepalive, payloads of 0, 2, 4, 8
\* and 12 bytes after the type byte, the longest length allowed, and a
\* length over the limit.
Lengths == {0, 1, 3, 5, 9, 13, MAX_PEER_MSG_LEN, MAX_PEER_MSG_LEN + 1}

\* The ids of extended messages: the handshake, an id nobody registered, and
\* ut_metadata.
MsgIds == {0, 1, UT_METADATA}

\* What the peer writes: a length prefix, then (unless the length is 0) a
\* type byte and a payload; an extended payload starts with its id, and the
\* body of an extended handshake parses or does not.
Frames ==
    [length : Lengths, mtype : (0..MaxType) \ {TYPE.Extended},
     msg_id : {0}, body : {"valid"}]
    \cup [length : Lengths, mtype : {TYPE.Extended},
          msg_id : MsgIds, body : {"valid", "invalid"}]

NoMsg == [klass |-> None, msg_id |-> 0, body |-> None]

\* klass.from_payload(payload) accepts a payload of n bytes.
from_payload_accepts(klass, n) ==
    CASE klass \in EmptyMessage -> TRUE
      [] klass \in {"Have", "AllowedFast", "Suggest"} -> n = 4
      [] klass = "Bitfield" -> TRUE
      [] klass \in {"Request", "Cancel", "Reject"} -> n = 12
      [] klass = "Piece" -> n >= 8
      [] klass = "Port" -> n = 2
      [] klass = "Extended" -> n >= 1

\* Message.parse(blob): the message, or ValueError for an unknown type or a
\* payload the class refuses.
MessageParse(f) ==
    IF \E k \in DOMAIN TYPE : TYPE[k] = f.mtype
    THEN LET klass == CHOOSE k \in DOMAIN TYPE : TYPE[k] = f.mtype
         IN  IF from_payload_accepts(klass, f.length - 1)
             THEN [err |-> None,
                   val |-> [klass |-> klass, msg_id |-> f.msg_id,
                            body |-> f.body]]
             ELSE [err |-> "ValueError", val |-> NoMsg]
    ELSE [err |-> "ValueError", val |-> NoMsg]

\* Subscriber.match(msg) of the three subscribers.
match(s, msg) ==
    CASE s = "MessageSink" ->
             msg.klass \in EmptyMessage
                \cup {"Have", "Bitfield", "Piece", "AllowedFast", "Suggest"}
      [] s = "ExtendedHandshakeSubscriber" ->
             msg.klass = "Extended" /\ msg.msg_id = 0
      [] s = "ExtendedMessageChanneller" ->
             msg.klass = "Extended" /\ msg.msg_id = UT_METADATA

\* A connection before handshake() and start_tasks().
NoHandler ==
    [pc |-> "idle", subscribers |-> {}, bep10_handshake |-> "unset",
     length |-> <<>>, payload |-> <<>>, msg |-> NoMsg, notified |-> {},
     exc |-> None, said |-> None, handshakes |-> 0]

\* No message in hand.
NoItem == [klass |-> None, msg_id |-> 0, kind |-> "none", piece |-> 0]

\* Nothing sent.
NoOut == [kind |-> "none", msg_id |-> 0, piece |-> 0]

\* No tasks.
NoConn ==
    [peer_code |-> 0, piece_qty |-> 0, g |-> "idle", i |-> 0,
     item |-> NoItem, h |-> "idle", hmsg |-> NoItem, k |-> "idle",
     subscribers |-> {}, sending |-> {}, pending |-> NoOut, out |-> NoOut,
     exc |-> {}, said |-> None, result |-> None]

\* No connection.
HandlerIdle == hm = NoHandler /\ hs = NoHandshake /\ cx = NoConn

\* start_tasks(), after handshake() has returned: the sink joins the
\* subscribers and handle_messages starts reading.
start_tasks ==
    /\ hs.pc = "done"
    /\ hs' = [hs EXCEPT !.pc = "started"]
    /\ hm' = [hm EXCEPT !.pc = "read",
                        !.subscribers = @ \cup {"MessageSink"}]

\* The round ends with exception e, whose message is said, after the length
\* prefix was read.
HandlerRaise(e, said, payload, length) ==
    hm' = [hm EXCEPT !.pc = "raised", !.exc = e, !.said = said,
                     !.length = <<length>>, !.payload = payload,
                     !.msg = NoMsg, !.notified = {}]

\* ExtendedHandshakeSubscriber.notify, then the other subscribers' notify:
\* the first removes itself before it parses the handshake.
Notify(msg, payload, length) ==
    LET matched == {s \in hm.subscribers : match(s, msg)}
        count == hm.handshakes
                     + (IF match("ExtendedHandshakeSubscriber", msg)
                        THEN 1 ELSE 0)
    IN  IF matched = {}
        THEN hm' = [hm EXCEPT !.pc = "raised", !.exc = "PeerError",
                              !.said = "Peer sent unexpected message",
                              !.length = <<length>>,
                              !.payload = payload, !.msg = msg,
                              !.notified = {}, !.handshakes = count]
        ELSE IF "ExtendedHandshakeSubscriber" \in matched
        THEN hm' = [hm EXCEPT
                 !.pc = IF msg.body = "valid" THEN "read" ELSE "raised",
                 !.exc = IF msg.body = "valid" THEN None ELSE "PeerError",
                 !.said = IF msg.body = "valid" THEN None
                          ELSE "Peer sent invalid extension handshake",
                 !.subscribers = @ \ {"ExtendedHandshakeSubscriber"},
                 !.bep10_handshake = IF msg.body = "valid" THEN "set" ELSE @,
                 !.length = <<length>>,
                 !.payload = payload, !.msg = msg, !.notified = matched,
                 !.handshakes = count]
        ELSE hm' = [hm EXCEPT !.length = <<length>>,
                              !.payload = payload, !.msg = msg,
                              !.notified = matched, !.handshakes = count]

\* A limit that refuses the longest length as well.
OversizedOrEqual(length) == length >= MAX_PEER_MSG_LEN

\* length > MAX_PEER_MSG_LEN
Oversized(length) == length > MAX_PEER_MSG_LEN

\* One round of aiter_messages and of the loop of handle_messages over it:
\* the length prefix has been read.  An oversized length fails before the
\* body is read; the peer may close the connection before it has sent the
\* whole body, and read(length) raises outside the try.  A keepalive reads
\* no payload, so the parse that follows is of the payload of the message
\* before; there is none before the first message.
handle_messages ==
    /\ hm.pc = "read"
    /\ UNCHANGED hs
    /\ \E f \in Frames :
           IF Oversized(f.length)
           THEN HandlerRaise("PeerError",
                             "Peer tried to send overly large message",
                             hm.payload, f.length)
           ELSE \/ /\ f.length # 0
                   /\ HandlerRaise("PeerError",
                                   "Peer closed the connection early",
                                   hm.payload, f.length)
                \/ LET payload == IF f.length = 0 THEN hm.payload ELSE <<f>>
                   IN  IF payload = <<>>
                       THEN HandlerRaise("UnboundLocalError", None, payload,
                                         f.length)
                       ELSE LET parsed == MessageParse(payload[1])
                            IN  IF parsed.err # None
                                THEN HandlerRaise("PeerError",
                                         "Peer sent invalid message",
                                         payload, f.length)
                                ELSE Notify(parsed.val, payload, f.length)

\* The peer closes the connection: read() raises PeerError, aiter_messages
\* returns, and handle_messages ends.
PeerCloses ==
    /\ hm.pc = "read"
    /\ UNCHANGED hs
    /\ hm' = [hm EXCEPT !.pc = "ended", !.length = <<>>, !.msg = NoMsg,
                        !.notified = {}]

\* get_info has the handshake and registers its channeller for the loop.
AddChanneller ==
    /\ hm.pc \in {"read", "ended"}
    /\ UNCHANGED hs
    /\ hm.bep10_handshake = "set"
    /\ "ExtendedMessageChanneller" \notin hm.subscribers
    /\ hm' = [hm EXCEPT !.subscribers = @ \cup {"ExtendedMessageChanneller"},
                        !.length = <<>>, !.msg = NoMsg, !.notified = {}]

\* get_info, which has the handshake, returns or fails: its channeller, if
\* registered, is taken off the list and aclose() cancels the connection's
\* tasks.
ConnectionClosed ==
    /\ hm.pc \in {"read", "ended"}
    /\ UNCHANGED hs
    /\ hm.bep10_handshake = "set"
    /\ hm' = [hm EXCEPT !.pc = "cancelled",
                        !.subscribers = @ \ {"ExtendedMessageChanneller"},
                        !.length = <<>>, !.msg = NoMsg, !.notified = {}]

(***************************************************************************)
(* PeerConnection.send_keepalives, with time.                              *)
(***************************************************************************)
KEEPALIVE_PERIOD == 120
MaxKeepaliveClock == 250

\* No connection.
KeepaliveIdle ==
    ka = [pc |-> "idle", now |-> 0, wakeAt |-> 0, lastOut |-> 0,
          emitted |-> <<>>, idle |-> 0]

\* start_tasks() starts send_keepalives right after handshake() has sent the
\* extended handshake: the first sleep begins.
KeepaliveStarted ==
    ka = [pc |-> "sleep", now |-> 0, wakeAt |-> KEEPALIVE_PERIOD,
          lastOut |-> 0, emitted |-> <<>>, idle |-> 0]

\* A second passes: not beyond the end of the sleep.
KeepaliveTick ==
    /\ ka.pc = "sleep"
    /\ ka.now < ka.wakeAt
    /\ ka.now < MaxKeepaliveClock
    /\ ka' = [ka EXCEPT !.now = @ + 1]

\* sleep(KEEPALIVE_PERIOD) is over: the keepalive is sent, whatever else was
\* sent since, and the next sleep begins; or the send fails because the peer
\* has reset the connection.  idle records for how long the core had sent
\* nothing when the keepalive went out.
send_keepalives ==
    /\ ka.pc = "sleep"
    /\ ka.now = ka.wakeAt
    /\ \/ ka' = [ka EXCEPT !.emitted = <<ka.now>>,
                           !.idle = ka.now - ka.lastOut,
                           !.lastOut = ka.now,
                           !.wakeAt = ka.now + KEEPALIVE_PERIOD]
       \/ ka' = [ka EXCEPT !.pc = "BrokenResourceError"]

\* get_info sends a request or a reject to the peer.
CoreSends ==
    /\ ka.pc = "sleep"
    /\ ka.lastOut < ka.now
    /\ ka' = [ka EXCEPT !.lastOut = ka.now]

\* aclose() cancels the connection's task group: the sleep is cancelled.
KeepaliveCancelled ==
    /\ ka.pc = "sleep"
    /\ ka' = [ka EXCEPT !.pc = "cancelled"]

(***************************************************************************)
(* UDPTrackerSession: get_connection, announce and send_receive.           *)
(***************************************************************************)
MaxTimeouts == 10
MaxBad == 2
MaxConnects == 2
NumTxIds == 2
NumConnIds == 2

\* make_transaction_id()
TxIds == 1..NumTxIds

\* The connection ids a tracker hands out.
ConnIds == 1..NumConnIds

\* A request: build_connection_request / build_announce_request.
Datagram(action, transaction_id, connection_id) ==
    [action |-> action, transaction_id |-> transaction_id,
     connection_id |-> connection_id]

NoDatagram == Datagram(0 - 1, 0, 0)

\* A datagram received: its action and transaction id, the connection id of
\* a connect response, how much of it there is ("none": fewer than the 8
\* bytes of action and transaction id; "head": those, but not the whole
\* structure; "whole"), and whether the peers block of an announce response
\* is a whole number of records.
Responses ==
    [action : 0..3, transaction_id : TxIds, connection_id : ConnIds,
     size : {"none", "head", "whole"}, peers : {"aligned", "ragged"}]

\* A parser of connect responses that takes any transaction id.
parse_connection_response_any(transaction_id, resp) ==
    IF resp.size = "none" THEN "struct.error"
    ELSE IF resp.action = 3 THEN "TrackerFailure"
    ELSE IF resp.size # "whole" THEN "struct.error"
    ELSE IF resp.action # 0 THEN "ValueError"
    ELSE None

\* parse_connection_response: the exception raised, or None when the
\* connection id is returned.
parse_connection_response(transaction_id, resp) ==
    IF resp.size = "none" THEN "struct.error"
    ELSE IF resp.action = 3 THEN "TrackerFailure"
    ELSE IF resp.size # "whole" THEN "struct.error"
    ELSE IF resp.transaction_id # transaction_id THEN "ValueError"
    ELSE IF resp.action # 0 THEN "ValueError"
    ELSE None

\* A parser of announce responses that compares the transaction ids before
\* it looks for an error response.
parse_announce_response_own(transaction_id, resp) ==
    IF resp.size = "none" THEN "struct.error"
    ELSE IF resp.transaction_id # transaction_id THEN "ValueError"
    ELSE IF resp.action = 3 THEN "TrackerFailure"
    ELSE IF resp.size # "whole" THEN "struct.error"
    ELSE IF resp.action # 1 THEN "ValueError"
    ELSE IF resp.peers = "ragged" THEN "ValueError"
    ELSE None

\* parse_announce_response: the exception raised, or None when the peers
\* are returned.
parse_announce_response(transaction_id, resp) ==
    IF resp.size = "none" THEN "struct.error"
    ELSE IF resp.action = 3 THEN "TrackerFailure"
    ELSE IF resp.size # "whole" THEN "struct.error"
    ELSE IF resp.transaction_id # transaction_id THEN "ValueError"
    ELSE IF resp.action # 1 THEN "ValueError"
    ELSE IF resp.peers = "ragged" THEN "ValueError"
    ELSE None

\* An n that grows without limit.
NextNUnclamped(n) == n + 1

\* if n < 8: n += 1
NextN(n) == IF n < 8 THEN n + 1 ELSE n

\* The times of a session that has sent nothing.
NoUdpClock ==
    [expiration |-> 0, tryAt |-> 0, sentAge |-> 0, lapses |-> 0]

\* No session.
UdpIdle ==
    /\ udp = [pc |-> "idle", event |-> "started", connection |-> <<>>,
              kind |-> None, msg |-> NoDatagram, first |-> NoDatagram,
              n |-> 0, wait |-> 0, nsent |-> 0, ntimeouts |-> 0, nbad |-> 0,
              nconnects |-> 0, accepted |-> <<>>, error |-> <<>>,
              exc |-> None]
    /\ uc = NoUdpClock

\* UDPTracker.connect has made the session and get_peers calls
\* announce(STARTED).
UdpOpened ==
    /\ udp = [pc |-> "call", event |-> "started", connection |-> <<>>,
              kind |-> None, msg |-> NoDatagram, first |-> NoDatagram,
              n |-> 0, wait |-> 0, nsent |-> 0, ntimeouts |-> 0, nbad |-> 0,
              nconnects |-> 0, accepted |-> <<>>, error |-> <<>>,
              exc |-> None]
    /\ uc = NoUdpClock

\* send_receive begins: n = 0, the message is sent and the first wait
\* begins.
send_receive(kind, msg) ==
    [udp EXCEPT !.pc = "wait", !.kind = kind, !.msg = msg, !.first = msg,
                !.n = 0, !.wait = TryTimeout(0), !.nsent = 1,
                !.ntimeouts = 0, !.nbad = 0]

\* get_connection with no connection: a connection request with a new
\* transaction id.
get_connection ==
    /\ udp.pc = "call"
    /\ udp.connection = <<>>
    /\ udp.nconnects < MaxConnects
    /\ \E t \in TxIds :
           udp' = [send_receive("connect", Datagram(0, t, 0))
                       EXCEPT !.nconnects = @ + 1]

\* get_connection returns the connection it has, and Connection.announce
\* sends an announce request with that connection's id.
announce ==
    /\ udp.pc = "call"
    /\ udp.connection # <<>>
    /\ \E t \in TxIds :
           udp' = send_receive("announce",
                               Datagram(1, t, udp.connection[1]))

\* fail_after(15 << n) expires: n advances and the message is sent again.
UdpTimeout ==
    /\ udp.pc = "wait"
    /\ udp.ntimeouts < MaxTimeouts
    /\ udp' = [udp EXCEPT !.n = NextN(@), !.wait = TryTimeout(NextN(udp.n)),
                          !.ntimeouts = @ + 1, !.nsent = @ + 1]

\* response_parser(resp) of the request that is out.
ResponseParser(resp) ==
    IF udp.kind = "connect"
    THEN parse_connection_response(udp.msg.transaction_id, resp)
    ELSE parse_announce_response(udp.msg.transaction_id, resp)

\* A datagram arrives.  TrackerFailure is raised on; any other exception of
\* the parser sends the loop back to its top, where the message is sent
\* again and a new wait of 15 << n begins; a response that parses is
\* returned.  accepted records the connection id of a connect response that
\* has action 0 and the transaction id of the request; error records the
\* datagram received when it has the 8 bytes of action and transaction id
\* and its action is 3, whatever the parser makes of it.
IsErrorResponse(resp) == resp.size # "none" /\ resp.action = 3

UdpReceive ==
    /\ udp.pc = "wait"
    /\ \E resp \in Responses :
         LET e == ResponseParser(resp)
             ours == /\ udp.kind = "connect"
                     /\ resp.size = "whole"
                     /\ resp.action = 0
                     /\ resp.transaction_id = udp.msg.transaction_id
             accepted == IF ours THEN <<resp.connection_id>>
                         ELSE udp.accepted
             error == IF IsErrorResponse(resp) THEN <<resp>> ELSE udp.error
         IN  IF e = "TrackerFailure"
             THEN udp' = [udp EXCEPT !.pc = "raised", !.exc = e,
                                     !.accepted = accepted,
                                     !.error = error]
             ELSE IF e # None
             THEN /\ udp.nbad < MaxBad
                  /\ udp' = [udp EXCEPT !.nbad = @ + 1, !.nsent = @ + 1,
                                        !.wait = TryTimeout(udp.n),
                                        !.accepted = accepted,
                                        !.error = error]
             ELSE IF udp.kind = "connect"
             THEN udp' = [udp EXCEPT !.pc = "call",
                                     !.connection = <<resp.connection_id>>,
                                     !.accepted = accepted]
             ELSE IF udp.event = "started"
             THEN udp' = [udp EXCEPT !.pc = "call", !.event = "stopped"]
             ELSE udp' = [udp EXCEPT !.pc = "returned"]

\* The connection is 60 s old: fail_after(expiration - time()) expires,
\* send_receive raises ConnectionTimeoutError and announce resets the
\* connection and starts over.
UdpExpired ==
    /\ udp.pc = "wait"
    /\ udp.kind = "announce"
    /\ udp' = [udp EXCEPT !.pc = "call", !.connection = <<>>]

(***************************************************************************)
(* UDPTrackerSession with time: the 60 seconds of a Connection.  The clock *)
(* is now, in seconds since the session was made, and goes in steps of     *)
(* UdpTickLen seconds.  A deadline that is                                  *)
(* reached wins over what else could happen in the same second, and a      *)
(* cancel scope whose deadline has passed when it is entered cancels the    *)
(* first checkpoint in it, which is the one socket.send begins with.       *)
(***************************************************************************)
\* Connection.__attrs_post_init__: self.expiration = time() + 60
CONNECTION_LIFETIME == 60

\* The clock stops here.
MaxUdpClock == 70

\* The step of the clock.
UdpTickLen == 5

\* The datagram goes out now and the wait of 15 << n begins; an announce
\* request carries a connection id that is sentAge seconds old.
Transmitted ==
    [uc EXCEPT !.tryAt = now,
               !.sentAge = IF udp'.kind = "announce"
                           THEN now - (uc.expiration - CONNECTION_LIFETIME)
                           ELSE @]

\* A connection with no end.
NeverExpired == TRUE

\* fail_after(expiration - time()) is still running.
Unexpired == udp.kind = "announce" => now < uc.expiration

\* UdpTickLen seconds pass while a reply is awaited, or between the return of the
\* started announce and the caller's stopped announce.
UdpTick ==
    /\ now < MaxUdpClock
    /\ \/ /\ udp.pc = "wait"
          /\ now < uc.tryAt + udp.wait
          /\ Unexpired
       \/ /\ udp.pc = "call"
          /\ udp.event = "stopped"
          /\ udp.kind = "announce"
          /\ udp.connection # <<>>
    /\ now' = now + UdpTickLen
    /\ UNCHANGED <<tk, cancelledAt, udp, uc>>

\* get_connection, at now.
ClockedGetConnection ==
    /\ get_connection
    /\ uc' = Transmitted
    /\ UNCHANGED clockVars

\* Connection.announce, at now: with the connection's time left the
\* request is sent; with none left send_receive raises
\* ConnectionTimeoutError before anything is sent and announce() resets
\* the connection.
ClockedAnnounce ==
    /\ IF now < uc.expiration
       THEN /\ announce
            /\ uc' = Transmitted
       ELSE /\ udp.pc = "call"
            /\ udp.connection # <<>>
            /\ udp' = [udp EXCEPT !.connection = <<>>]
            /\ uc' = [uc EXCEPT !.expiration = 0, !.lapses = @ + 1]
    /\ UNCHANGED clockVars

\* fail_after(15 << n) expires, at now.
ClockedTimeout ==
    /\ now >= uc.tryAt + udp.wait
    /\ Unexpired
    /\ UdpTimeout
    /\ uc' = Transmitted
    /\ UNCHANGED clockVars

\* A datagram arrives, at now: a connection made of a connect response
\* expires CONNECTION_LIFETIME later; a datagram that does not parse makes
\* the request go out again.
ClockedReceive ==
    /\ Unexpired
    /\ UdpReceive
    /\ uc' = IF udp'.nbad # udp.nbad THEN Transmitted
             ELSE IF udp'.connection # udp.connection
             THEN [uc EXCEPT !.expiration = now + CONNECTION_LIFETIME]
             ELSE uc
    /\ UNCHANGED clockVars

\* The connection is CONNECTION_LIFETIME old while an announce waits.
ClockedExpired ==
    /\ now >= uc.expiration
    /\ UdpExpired
    /\ uc' = [uc EXCEPT !.expiration = 0, !.lapses = @ + 1]
    /\ UNCHANGED clockVars

(***************************************************************************)
(* The session.                                                            *)
(***************************************************************************)
Init ==
    /\ \E trs \in MagnetTrs : SessionInit(trs)
    /\ ConnIdle
    /\ ClockIdle
    /\ CodecIdle
    /\ HandlerIdle
    /\ KeepaliveIdle
    /\ UdpIdle

Next ==
    \/ OrchStart /\ UNCHANGED <<connVars, clockVars, codecVars, handlerVars, keepaliveVars, udpVars>>
    \/ OrchReceived /\ UNCHANGED <<connVars, clockVars, codecVars, handlerVars, keepaliveVars, udpVars>>
    \/ OrchEndOfStream /\ UNCHANGED <<connVars, clockVars, codecVars, handlerVars, keepaliveVars, udpVars>>
    \/ OrchCancelled /\ UNCHANGED <<connVars, clockVars, codecVars, handlerVars, keepaliveVars, udpVars>>
    \/ OrchJoin /\ UNCHANGED <<connVars, clockVars, codecVars, handlerVars, keepaliveVars, udpVars>>
    \/ PipeStart /\ UNCHANGED <<connVars, clockVars, codecVars, handlerVars, keepaliveVars, udpVars>>
    \/ PipeGot /\ UNCHANGED <<connVars, clockVars, codecVars, handlerVars, keepaliveVars, udpVars>>
    \/ PipeEnd /\ UNCHANGED <<connVars, clockVars, codecVars, handlerVars, keepaliveVars, udpVars>>
    \/ PipeCancelled /\ UNCHANGED <<connVars, clockVars, codecVars, handlerVars, keepaliveVars, udpVars>>
    \/ \E t \in Trackers : TrackerConnect(t) /\ UNCHANGED <<connVars, clockVars, codecVars, handlerVars, keepaliveVars, udpVars>>
    \/ \E t \in Trackers : TrackerAnnounced(t) /\ UNCHANGED <<connVars, clockVars, codecVars, handlerVars, keepaliveVars, udpVars>>
    \/ \E t \in Trackers : TrackerAnnounceFails(t) /\ UNCHANGED <<connVars, clockVars, codecVars, handlerVars, keepaliveVars, udpVars>>
    \/ \E t \in Trackers : TrackerPush(t) /\ UNCHANGED <<connVars, clockVars, codecVars, handlerVars, keepaliveVars, udpVars>>
    \/ \E t \in Trackers : TrackerStopped(t) /\ UNCHANGED <<connVars, clockVars, codecVars, handlerVars, keepaliveVars, udpVars>>
    \/ \E t \in Trackers : TrackerTimeout(t) /\ UNCHANGED <<connVars, clockVars, codecVars, handlerVars, keepaliveVars, udpVars>>
    \/ \E t \in Trackers : TrackerCancelled(t) /\ UNCHANGED <<connVars, clockVars, codecVars, handlerVars, keepaliveVars, udpVars>>
    \/ \E w \in Workers : WorkerAcquire(w) /\ UNCHANGED <<connVars, clockVars, codecVars, handlerVars, keepaliveVars, udpVars>>
    \/ \E w \in Workers : WorkerConnect(w) /\ UNCHANGED <<connVars, clockVars, codecVars, handlerVars, keepaliveVars, udpVars>>
    \/ \E w \in Workers : WorkerGetInfo(w) /\ UNCHANGED <<connVars, clockVars, codecVars, handlerVars, keepaliveVars, udpVars>>
    \/ \E w \in Workers : HandlerFails(w) /\ UNCHANGED <<connVars, clockVars, codecVars, handlerVars, keepaliveVars, udpVars>>
    \/ \E w \in Workers : HandlerEnds(w) /\ UNCHANGED <<connVars, clockVars, codecVars, handlerVars, keepaliveVars, udpVars>>
    \/ \E w \in Workers : KeepaliveFails(w) /\ UNCHANGED <<connVars, clockVars, codecVars, handlerVars, keepaliveVars, udpVars>>
    \/ \E w \in Workers : WorkerClosed(w) /\ UNCHANGED <<connVars, clockVars, codecVars, handlerVars, keepaliveVars, udpVars>>
    \/ \E w \in Workers : WorkerBroken(w) /\ UNCHANGED <<connVars, clockVars, codecVars, handlerVars, keepaliveVars, udpVars>>
    \/ \E w \in Workers : WorkerCancelled(w) /\ UNCHANGED <<connVars, clockVars, codecVars, handlerVars, keepaliveVars, udpVars>>

Spec == Init /\ [][Next]_vars

(***************************************************************************)
(* The session with fairness.  Every task that can run does run: a step    *)
(* of the program that stays possible is taken.  What a worker waits for   *)
(* from its peer once the handshakes are done (the end of get_info, a      *)
(* message that makes handle_messages fail, the end of the stream, a reset *)
(* that makes a keepalive fail) is the peer's to give and may never come:  *)
(* no timeout of the code covers it.                                       *)
(***************************************************************************)
\* A step of worker w that the peer brings about.
WorkerWaitsOnPeer(w) ==
    \/ WorkerGetInfo(w)
    \/ HandlerFails(w)
    \/ HandlerEnds(w)
    \/ KeepaliveFails(w)

\* A step that does not wait for a peer.
ProgramStep == Next /\ ~(\E w \in Workers : WorkerWaitsOnPeer(w))

SpecLive == Init /\ [][Next]_vars /\ WF_vars(ProgramStep)

(***************************************************************************)
(* One connection on its own.                                              *)
(***************************************************************************)
InitInfo ==
    /\ SessionInit(<<>>)
    /\ info_hash \in 0..(HashMod - 1)
    /\ wire \in [blob : Blobs, served : {0}]
    /\ handshake \in [ut_metadata : BOOLEAN,
                      metadata_size : Optional(0..(Len(wire.blob) + 1))]
    /\ info_piecer = InfoPiecer(0)
    /\ gi = [pc |-> "handshake", i |-> 0, info |-> NoValue, msg |-> NoMessage,
             sent |-> Sending("none", 0), nreq |-> 0, nrej |-> 0]
    /\ ap = NoCall
    /\ ClockIdle
    /\ CodecIdle
    /\ HandlerIdle
    /\ KeepaliveIdle
    /\ UdpIdle

NextInfo ==
    \/ GetInfoHandshake /\ UNCHANGED <<sessionVars, clockVars, codecVars, handlerVars, keepaliveVars, udpVars, ap>>
    \/ GetInfoRequest /\ UNCHANGED <<sessionVars, clockVars, codecVars, handlerVars, keepaliveVars, udpVars, ap>>
    \/ GetInfoData /\ UNCHANGED <<sessionVars, clockVars, codecVars, handlerVars, keepaliveVars, udpVars, ap>>
    \/ GetInfoReject /\ UNCHANGED <<sessionVars, clockVars, codecVars, handlerVars, keepaliveVars, udpVars, ap>>
    \/ GetInfoPeerRequest /\ UNCHANGED <<sessionVars, clockVars, codecVars, handlerVars, keepaliveVars, udpVars, ap>>
    \/ GetInfoOther /\ UNCHANGED <<sessionVars, clockVars, codecVars, handlerVars, keepaliveVars, udpVars, ap>>
    \/ GetInfoValidate /\ UNCHANGED <<sessionVars, clockVars, codecVars, handlerVars, keepaliveVars, udpVars, ap>>

SpecInfo == InitInfo /\ [][NextInfo]_vars

(***************************************************************************)
(* One InfoPiecer on its own.                                              *)
(***************************************************************************)
InitPiecer ==
    /\ SessionInit(<<>>)
    /\ info_hash = 0
    /\ wire = [blob |-> <<>>, served |-> 0]
    /\ handshake = [ut_metadata |-> FALSE, metadata_size |-> <<>>]
    /\ gi = [pc |-> "idle", i |-> 0, info |-> NoValue, msg |-> NoMessage,
             sent |-> Sending("none", 0), nreq |-> 0, nrej |-> 0]
    /\ PiecerInit
    /\ ClockIdle
    /\ CodecIdle
    /\ HandlerIdle
    /\ KeepaliveIdle
    /\ UdpIdle

NextPiecer ==
    \/ AddPiece /\ UNCHANGED <<sessionVars, clockVars, codecVars, handlerVars, keepaliveVars, udpVars>>

SpecPiecer == InitPiecer /\ [][NextPiecer]_vars

(***************************************************************************)
(* One tracker task on its own, with time.                                 *)
(***************************************************************************)
InitTracker ==
    /\ SessionInit(<<>>)
    /\ ConnIdle
    /\ now = 0
    /\ tk = [pc |-> "open", n |-> 0, tryAt |-> 0, left |-> 0, stopAt |-> 0,
             endedAt |-> 0, endedBy |-> None, cause |-> None]
    /\ cancelledAt = <<>>
    /\ CodecIdle
    /\ HandlerIdle
    /\ KeepaliveIdle
    /\ UdpIdle

NextTracker ==
    \/ Tick /\ UNCHANGED <<sessionVars, connVars, codecVars, handlerVars, keepaliveVars, udpVars>>
    \/ GetPeersOpen /\ UNCHANGED <<sessionVars, connVars, codecVars, handlerVars, keepaliveVars, udpVars>>
    \/ GetConnection /\ UNCHANGED <<sessionVars, connVars, codecVars, handlerVars, keepaliveVars, udpVars>>
    \/ SendReceiveTimeout /\ UNCHANGED <<sessionVars, connVars, codecVars, handlerVars, keepaliveVars, udpVars>>
    \/ SendReceiveBadResponse /\ UNCHANGED <<sessionVars, connVars, codecVars, handlerVars, keepaliveVars, udpVars>>
    \/ Announced /\ UNCHANGED <<sessionVars, connVars, codecVars, handlerVars, keepaliveVars, udpVars>>
    \/ Pushed /\ UNCHANGED <<sessionVars, connVars, codecVars, handlerVars, keepaliveVars, udpVars>>
    \/ Stopped /\ UNCHANGED <<sessionVars, connVars, codecVars, handlerVars, keepaliveVars, udpVars>>
    \/ StopTimeout /\ UNCHANGED <<sessionVars, connVars, codecVars, handlerVars, keepaliveVars, udpVars>>
    \/ GetPeersTimeout /\ UNCHANGED <<sessionVars, connVars, codecVars, handlerVars, keepaliveVars, udpVars>>
    \/ ScopeCancelled /\ UNCHANGED <<sessionVars, connVars, codecVars, handlerVars, keepaliveVars, udpVars>>
    \/ GetPeersCancelled /\ UNCHANGED <<sessionVars, connVars, codecVars, handlerVars, keepaliveVars, udpVars>>

SpecTracker == InitTracker /\ [][NextTracker]_vars

(***************************************************************************)
(* bencode.py on its own.                                                  *)
(***************************************************************************)
InitBencode ==
    /\ SessionInit(<<>>)
    /\ ConnIdle
    /\ ClockIdle
    /\ CodecInit
    /\ HandlerIdle
    /\ KeepaliveIdle
    /\ UdpIdle

NextBencode ==
    \/ CodecBencode /\ UNCHANGED <<sessionVars, connVars, clockVars, handlerVars, keepaliveVars, udpVars>>
    \/ CodecPartialUnbencode /\ UNCHANGED <<sessionVars, connVars, clockVars, handlerVars, keepaliveVars, udpVars>>
    \/ CodecUnbencode /\ UNCHANGED <<sessionVars, connVars, clockVars, handlerVars, keepaliveVars, udpVars>>
    \/ CodecReencode /\ UNCHANGED <<sessionVars, connVars, clockVars, handlerVars, keepaliveVars, udpVars>>

SpecBencode == InitBencode /\ [][NextBencode]_vars

(***************************************************************************)
(* The message handler of one connection on its own.                       *)
(***************************************************************************)
InitHandler ==
    /\ SessionInit(<<>>)
    /\ ConnIdle
    /\ ClockIdle
    /\ CodecIdle
    /\ hm = NoHandler
    /\ \E r \in PeerHandshakes : hs = [NoHandshake EXCEPT !.pc = "send",
                                                         !.reply = r]
    /\ cx = NoConn
    /\ KeepaliveIdle
    /\ UdpIdle

NextHandler ==
    \/ HandshakeSend /\ UNCHANGED <<sessionVars, connVars, clockVars, codecVars, keepaliveVars, udpVars, cx>>
    \/ HandshakeRead /\ UNCHANGED <<sessionVars, connVars, clockVars, codecVars, keepaliveVars, udpVars, cx>>
    \/ HandshakeSendExtended /\ UNCHANGED <<sessionVars, connVars, clockVars, codecVars, keepaliveVars, udpVars, cx>>
    \/ HandshakeSendHaveNone /\ UNCHANGED <<sessionVars, connVars, clockVars, codecVars, keepaliveVars, udpVars, cx>>
    \/ start_tasks /\ UNCHANGED <<sessionVars, connVars, clockVars, codecVars, keepaliveVars, udpVars, cx>>
    \/ handle_messages /\ UNCHANGED <<sessionVars, connVars, clockVars, codecVars, keepaliveVars, udpVars, cx>>
    \/ PeerCloses /\ UNCHANGED <<sessionVars, connVars, clockVars, codecVars, keepaliveVars, udpVars, cx>>
    \/ AddChanneller /\ UNCHANGED <<sessionVars, connVars, clockVars, codecVars, keepaliveVars, udpVars, cx>>
    \/ ConnectionClosed /\ UNCHANGED <<sessionVars, connVars, clockVars, codecVars, keepaliveVars, udpVars, cx>>

SpecHandler == InitHandler /\ [][NextHandler]_vars

(***************************************************************************)
(* The keepalive task of one connection on its own.                        *)
(***************************************************************************)
InitKeepalive ==
    /\ SessionInit(<<>>)
    /\ ConnIdle
    /\ ClockIdle
    /\ CodecIdle
    /\ HandlerIdle
    /\ KeepaliveStarted
    /\ UdpIdle

NextKeepalive ==
    \/ KeepaliveTick /\ UNCHANGED <<sessionVars, connVars, clockVars, codecVars, handlerVars, udpVars>>
    \/ send_keepalives /\ UNCHANGED <<sessionVars, connVars, clockVars, codecVars, handlerVars, udpVars>>
    \/ CoreSends /\ UNCHANGED <<sessionVars, connVars, clockVars, codecVars, handlerVars, udpVars>>
    \/ KeepaliveCancelled /\ UNCHANGED <<sessionVars, connVars, clockVars, codecVars, handlerVars, udpVars>>

SpecKeepalive == InitKeepalive /\ [][NextKeepalive]_vars
(***************************************************************************)
(* One UDP tracker session on its own.                                     *)
(***************************************************************************)
InitUdp ==
    /\ SessionInit(<<>>)
    /\ ConnIdle
    /\ ClockIdle
    /\ CodecIdle
    /\ HandlerIdle
    /\ KeepaliveIdle
    /\ UdpOpened

NextUdp ==
    \/ get_connection /\ UNCHANGED <<sessionVars, connVars, clockVars, codecVars, handlerVars, keepaliveVars, uc>>
    \/ announce /\ UNCHANGED <<sessionVars, connVars, clockVars, codecVars, handlerVars, keepaliveVars, uc>>
    \/ UdpTimeout /\ UNCHANGED <<sessionVars, connVars, clockVars, codecVars, handlerVars, keepaliveVars, uc>>
    \/ UdpReceive /\ UNCHANGED <<sessionVars, connVars, clockVars, codecVars, handlerVars, keepaliveVars, uc>>
    \/ UdpExpired /\ UNCHANGED <<sessionVars, connVars, clockVars, codecVars, handlerVars, keepaliveVars, uc>>

SpecUdp == InitUdp /\ [][NextUdp]_vars

(***************************************************************************)
(* One UDP tracker session on its own, with time.                          *)
(***************************************************************************)
InitUdpClock == InitUdp

NextUdpClock ==
    \/ UdpTick /\ UNCHANGED <<sessionVars, connVars, codecVars, handlerVars, keepaliveVars>>
    \/ ClockedGetConnection /\ UNCHANGED <<sessionVars, connVars, codecVars, handlerVars, keepaliveVars>>
    \/ ClockedAnnounce /\ UNCHANGED <<sessionVars, connVars, codecVars, handlerVars, keepaliveVars>>
    \/ ClockedTimeout /\ UNCHANGED <<sessionVars, connVars, codecVars, handlerVars, keepaliveVars>>
    \/ ClockedReceive /\ UNCHANGED <<sessionVars, connVars, codecVars, handlerVars, keepaliveVars>>
    \/ ClockedExpired /\ UNCHANGED <<sessionVars, connVars, codecVars, handlerVars, keepaliveVars>>

SpecUdpClock == InitUdpClock /\ [][NextUdpClock]_vars

(***************************************************************************)
(* The three tasks of one connection: the task running get_info and the    *)
(* two tasks start_tasks starts, handle_messages and send_keepalives.      *)
(* Each action runs one task from one suspension point to the next, and    *)
(* the tasks are taken in any order: nothing in the code orders them.      *)
(***************************************************************************)

\* The largest piece_qty of an InfoPiecer here.
MaxPieces == 2

\* The ut_metadata codes a peer declares in the m dictionary of its
\* extended handshake; 0 stands for a dictionary without ut_metadata.
PeerCodes == {0, 1, UT_METADATA}

\* What the peer sends: a choke, an extended handshake, and ut_metadata
\* messages addressed to the id the core declared.
PeerMessages ==
    {[klass |-> "Choke", msg_id |-> 0, kind |-> "none", piece |-> 0],
     [klass |-> "Extended", msg_id |-> 0, kind |-> "handshake", piece |-> 0]}
    \cup [klass : {"Extended"}, msg_id : {UT_METADATA},
          kind : {"data", "request", "reject"}, piece : 0 .. MaxPieces - 1]

\* The program counters of a task that is over.
Finished == {"returned", "raised", "cancelled", "ended"}

\* TaskGroup cancel scope: every task that is not over is cancelled, and a
\* cancelled task leaves SocketStream.send.
CancelTasks(c) ==
    [c EXCEPT !.g = IF @ \in Finished THEN @ ELSE "cancelled",
              !.h = IF @ \in Finished THEN @ ELSE "cancelled",
              !.k = IF @ \in Finished THEN @ ELSE "cancelled",
              !.sending = {}]

\* Task t raises e; the exception leaves the task group, which cancels the
\* other tasks.  A PeerError carries text.
RaiseIn(c, t, e, text) ==
    CancelTasks([c EXCEPT ![t] = "raised",
                          !.exc = @ \cup {e},
                          !.said = IF @ = None THEN text ELSE @])

\* PeerConnection.send and the keepalive task's socket.send: the stream
\* refuses a task while another one is inside send.
SocketSend(c, t, msg) ==
    IF c.sending # {}
    THEN RaiseIn(c, t, "BusyResourceError", None)
    ELSE [c EXCEPT ![t] = "send",
                   !.sending = {t},
                   !.pending = IF t = "g" THEN msg ELSE @]

\* The request for piece i, addressed to the peer's code.
RequestMsg(c, i) == [kind |-> "request", msg_id |-> c.peer_code, piece |-> i]

\* The reject of the peer's request for a piece, addressed to the core's id.
RejectMsg(c, piece) ==
    [kind |-> "reject", msg_id |-> UT_METADATA, piece |-> piece]

\* get_info leaves its with blocks and the connection is closed: the
\* channeller is removed, the channel is closed and the tasks are
\* cancelled.  A handler blocked in the channel's send has both its wake-up
\* (the channel is broken) and the cancellation pending.
LeaveGetInfo(c, broken) ==
    LET d == [c EXCEPT !.subscribers = @ \ {"ExtendedMessageChanneller"}]
    IN  IF c.h = "blocked" /\ broken
        THEN CancelTasks([d EXCEPT !.h = "raised",
                                   !.exc = @ \cup {"BrokenResourceError"}])
        ELSE CancelTasks(d)

\* The outcomes of a handler blocked in send when the channel closes.
Wakeups(c) == IF c.h = "blocked" THEN BOOLEAN ELSE {FALSE}

\* get_info raises a PeerError.
GetInfoRaises(c, text, broken) ==
    LeaveGetInfo([c EXCEPT !.g = "raised",
                           !.exc = @ \cup {"PeerError"},
                           !.said = IF @ = None THEN text ELSE @], broken)

\* handle_messages reads one message and notifies the subscribers that match.
TaskHandleMessage ==
    /\ cx.h = "read"
    /\ \E msg \in PeerMessages :
         LET notified == {s \in cx.subscribers : match(s, msg)}
             c == [cx EXCEPT !.hmsg = msg]
         IN  IF notified = {}
             THEN cx' = RaiseIn(c, "h", "PeerError",
                                "Peer sent unexpected message")
             ELSE IF "ExtendedHandshakeSubscriber" \in notified
             THEN \E code \in PeerCodes, qty \in 1 .. MaxPieces :
                    cx' = [c EXCEPT
                             !.subscribers =
                                 @ \ {"ExtendedHandshakeSubscriber"},
                             !.peer_code = code,
                             !.piece_qty = qty,
                             !.g = IF @ = "handshake" THEN "ready" ELSE @]
             ELSE IF "ExtendedMessageChanneller" \in notified
             THEN cx' = [c EXCEPT !.h = "notify"]
             ELSE cx' = c

\* ExtendedMessageChanneller.notify: sender.send on a stream without a
\* buffer hands the message to a waiting receiver or blocks.
TaskChannellerNotify ==
    /\ cx.h = "notify"
    /\ cx' = IF cx.g = "receive"
             THEN [cx EXCEPT !.h = "read", !.g = "got", !.item = cx.hmsg]
             ELSE [cx EXCEPT !.h = "blocked"]

\* aiter_messages ends when the peer closes the connection.
TaskPeerCloses ==
    /\ cx.h = "read"
    /\ cx' = [cx EXCEPT !.h = "ended"]

\* get_info after bep10_handshake.get(): the checks of the handshake, the
\* channeller and the request for piece 0.
TaskGetInfoStart ==
    /\ cx.g = "ready"
    /\ IF cx.peer_code = 0
       THEN cx' = GetInfoRaises(cx, "Peer does not support metadata transfer",
                                FALSE)
       ELSE cx' = SocketSend(
                    [cx EXCEPT !.subscribers =
                                   @ \cup {"ExtendedMessageChanneller"},
                               !.i = 0],
                    "g", RequestMsg(cx, 0))

\* PeerConnection.send returns in get_info, which goes on to the receiver.
TaskGetInfoSent ==
    /\ cx.g = "send"
    /\ cx' = [cx EXCEPT !.g = "receive", !.sending = {}, !.out = cx.pending]

\* receiver.receive takes the message of a blocked sender.
TaskGetInfoReceive ==
    /\ cx.g = "receive"
    /\ cx.h = "blocked"
    /\ cx' = [cx EXCEPT !.g = "got", !.item = cx.hmsg, !.h = "read"]

\* The body of the async for over the receiver, for one message.
TaskGetInfoMessage ==
    /\ cx.g = "got"
    /\ LET bm == cx.item IN
       CASE bm.kind = "data" /\ bm.piece # cx.i ->
              \E broken \in Wakeups(cx) :
                cx' = GetInfoRaises(cx, "received data for info piece", broken)
         [] bm.kind = "data" /\ bm.piece = cx.i /\ cx.i + 1 < cx.piece_qty ->
              cx' = SocketSend([cx EXCEPT !.i = @ + 1], "g",
                               RequestMsg(cx, cx.i + 1))
         [] bm.kind = "data" /\ bm.piece = cx.i /\ cx.i + 1 = cx.piece_qty ->
              \E valid \in BOOLEAN, broken \in Wakeups(cx) :
                cx' = IF valid
                      THEN LeaveGetInfo([cx EXCEPT !.g = "returned"], broken)
                      ELSE GetInfoRaises(
                               cx, "Received info with invalid digest", broken)
         [] bm.kind = "reject" /\ bm.piece # cx.i ->
              \E broken \in Wakeups(cx) :
                cx' = GetInfoRaises(cx, "received reject for info piece",
                                    broken)
         [] bm.kind = "reject" /\ bm.piece = cx.i ->
              cx' = [cx EXCEPT !.g = "receive"]
         [] bm.kind = "request" ->
              cx' = SocketSend(cx, "g", RejectMsg(cx, bm.piece))

\* send_keepalives wakes from its sleep and enters socket.send.
TaskKeepaliveWake ==
    /\ cx.k = "sleep"
    /\ cx' = SocketSend(cx, "k", NoOut)

\* socket.send returns in send_keepalives.
TaskKeepaliveSent ==
    /\ cx.k = "send"
    /\ cx' = [cx EXCEPT !.k = "sleep", !.sending = {}]

\* The task group ends when its tasks are over: Peer.get_info returns the
\* info if no task raised.
TaskGroupExit ==
    /\ cx.result = None
    /\ cx.g \in Finished
    /\ cx.h \in Finished
    /\ cx.k \in Finished
    /\ cx' = [cx EXCEPT !.result =
                            IF cx.exc = {} /\ cx.g = "returned"
                            THEN "info" ELSE "error"]

\* The connection after start_tasks.
ConnStarted ==
    [NoConn EXCEPT !.g = "handshake", !.h = "read", !.k = "sleep",
                   !.subscribers = {"ExtendedHandshakeSubscriber",
                                    "MessageSink"}]

InitConn ==
    /\ SessionInit(<<>>)
    /\ ConnIdle
    /\ ClockIdle
    /\ CodecIdle
    /\ hm = NoHandler
    /\ hs = NoHandshake
    /\ cx = ConnStarted
    /\ KeepaliveIdle
    /\ UdpIdle

NextConn ==
    \/ TaskHandleMessage /\ UNCHANGED <<sessionVars, connVars, clockVars, codecVars, hm, hs, keepaliveVars, udpVars>>
    \/ TaskChannellerNotify /\ UNCHANGED <<sessionVars, connVars, clockVars, codecVars, hm, hs, keepaliveVars, udpVars>>
    \/ TaskPeerCloses /\ UNCHANGED <<sessionVars, connVars, clockVars, codecVars, hm, hs, keepaliveVars, udpVars>>
    \/ TaskGetInfoStart /\ UNCHANGED <<sessionVars, connVars, clockVars, codecVars, hm, hs, keepaliveVars, udpVars>>
    \/ TaskGetInfoSent /\ UNCHANGED <<sessionVars, connVars, clockVars, codecVars, hm, hs, keepaliveVars, udpVars>>
    \/ TaskGetInfoReceive /\ UNCHANGED <<sessionVars, connVars, clockVars, codecVars, hm, hs, keepaliveVars, udpVars>>
    \/ TaskGetInfoMessage /\ UNCHANGED <<sessionVars, connVars, clockVars, codecVars, hm, hs, keepaliveVars, udpVars>>
    \/ TaskKeepaliveWake /\ UNCHANGED <<sessionVars, connVars, clockVars, codecVars, hm, hs, keepaliveVars, udpVars>>
    \/ TaskKeepaliveSent /\ UNCHANGED <<sessionVars, connVars, clockVars, codecVars, hm, hs, keepaliveVars, udpVars>>
    \/ TaskGroupExit /\ UNCHANGED <<sessionVars, connVars, clockVars, codecVars, hm, hs, keepaliveVars, udpVars>>

SpecConn == InitConn /\ [][NextConn]_vars

(***************************************************************************)
(* Properties of the session.                                              *)
(***************************************************************************)
\* Exceptions that reached the orchestrator's task group from a worker's
\* connection (Peer.get_info), as opposed to its send on the info channel.
FromConnection(x) == x.task[1] = "worker" /\ x.at # "broken"

\* C2: once the orchestrator has received the info of a worker, get_info
\* returns it and does not raise, even when another worker was blocked
\* sending its own info when the receive side was closed.  Runs in which a
\* connection raised into the task group are left aside.
C2_FirstInfoReturned ==
    (/\ orch.pc = "done"
     /\ orch.md # NoPeer
     /\ \A x \in tgExc : ~FromConnection(x))
        => orch.outcome = "returned"

\* C3: when get_info ends and no worker has obtained an info, with every
\* tracker's sender closed and every worker ended, it ends by raising
\* DemagnetizeError.
C3_ExhaustionRaisesDemagnetizeError ==
    (/\ orch.pc = "done"
     /\ ~info_fetched
     /\ \A t \in Trackers : ~trk[t].senderOpen
     /\ \A w \in Workers : ~WorkerRunning(w))
        => orch.outcome = "DemagnetizeError"

\* C4: whatever a peer does on its connection, no exception of its worker
\* reaches the orchestrator's task group.
C4_PeerFailuresLocal == \A x \in tgExc : ~FromConnection(x)

C6_OneWorkerPerAddress ==
    \A a \in 1..NumAddrs :
        BagCardinality(Where(LAMBDA w : w.peer.addr = a)) <= 1

\* The receiver holds a peer whose address already has a worker, reported
\* with another peer id.
C6_Witness ==
    /\ pipe.pc = "got"
    /\ pipe.item.addr \in peers_seen
    /\ \E w \in Workers :
         /\ w.peer.addr = pipe.item.addr
         /\ w.peer.id # pipe.item.id

\* C7: the workers holding a token of peer_limit never outnumber
\* PEERS_PER_MAGNET_LIMIT; a worker that connects or exchanges messages
\* holds one, and a worker that has ended, however it ended, holds none.
C7_LimiterBound ==
    /\ BagCardinality(Borrowers) <= PEERS_PER_MAGNET_LIMIT
    /\ \A w \in Workers :
         /\ w.pc \in {"connect", "exchange", "closing"} => w.token
         /\ w.pc = "done" => ~w.token

\* Every token is taken and a further worker waits for one.
C7_Witness ==
    /\ BagCardinality(Borrowers) = PEERS_PER_MAGNET_LIMIT
    /\ ~cancelled
    /\ \E w \in Workers : w.pc = "acquire"

\* C8, first part: when get_info has returned an info, the peer pipe, every
\* tracker task and every worker have ended, and no worker's connection
\* has a message handler or keepalive task left.
C8_Joined ==
    orch.outcome = "returned" =>
        /\ pipe.pc = "done"
        /\ \A t \in Trackers : ~TrackerRunning(t)
        /\ \A w \in Workers : ~WorkerRunning(w) /\ w.tasks = {}

\* C8, second part: in a cancelled scope a tracker task only ends, and
\* ends by CancelledError unless it is in the stopped announce; the peer
\* pipe only runs from a value it had already been given to its next
\* receive, or ends; a worker only unwinds: it leaves its connection or
\* ends, and a worker started by the pipe's last run ends before it takes
\* a token.
C8_StopStep ==
    cancelled =>
        /\ \A t \in Trackers :
             trk'[t] # trk[t] =>
                /\ trk'[t].pc = "done"
                /\ trk[t].pc # "stopping" =>
                      trk'[t].endedBy = "CancelledError"
        /\ pipe' # pipe =>
             \/ pipe.pc = "got" /\ pipe'.pc = "recv"
             \/ pipe.pc = "recv" /\ pipe'.pc = "done"
        /\ \A w \in BagToSet(workers') :
             CopiesIn(w, workers') > CopiesIn(w, workers) =>
                \/ w.pc = "acquire" /\ pipe.pc = "got"
                \/ w.pc = "closing" /\ w.result = "CancelledError"
                \/ w.pc = "done" /\ ~w.token

\* C8: every task of the magnet has ended when get_info returns an info,
\* and after the cancellation each task stops at its next suspension
\* point, the shielded stopped announce excepted.
C8_AllTerminated == []C8_Joined /\ [][C8_StopStep]_vars

\* get_info has returned an info after cancelling a tracker task and a
\* worker that had a connection or was about to open one.
C8_Witness ==
    /\ orch.outcome = "returned"
    /\ \E t \in Trackers : trk[t].endedBy = "CancelledError"
    /\ \E w \in Workers : w.result = "CancelledError" /\ ~w.senderOpen

\* C9 as stated: after the cancellation on the first info, a tracker task
\* that has sent its started announce does not end without having sent its
\* stopped announce, whether it was waiting for the reply, pushing peers
\* or already announcing stopped.
C9_StoppedAlwaysSent ==
    [][\A t \in Trackers :
          (/\ cancelled
           /\ orch.host = "return"
           /\ trk[t].pc \in {"announce", "push", "blocked", "stopping"}
           /\ trk'[t].pc = "done")
              => trk'[t].stopSent]_vars

\* C9, amended: after the cancellation on the first info, a tracker task
\* that had already entered the stopped announce is not interrupted: the
\* announce was sent and ends by its reply, an error or its own timeout;
\* a task cancelled before ends by CancelledError without a stopped
\* announce.
C9_StoppedCompletesOnceEntered ==
    [][\A t \in Trackers :
          (/\ cancelled
           /\ orch.host = "return"
           /\ trk[t].pc # "done"
           /\ trk'[t].pc = "done")
              => IF trk[t].pc = "stopping"
                 THEN /\ trk'[t].stopSent
                      /\ trk'[t].endedBy # "CancelledError"
                 ELSE /\ ~trk'[t].stopSent
                      /\ trk'[t].endedBy = "CancelledError"]_vars

\* The scope was cancelled on the first info while one tracker task was in
\* its stopped announce, and another, cancelled before it got there, has
\* ended without one.
C9_Witness ==
    /\ cancelled
    /\ orch.host = "return"
    /\ \E t, u \in Trackers :
         /\ trk[t].pc = "stopping"
         /\ trk[u].endedBy = "CancelledError" /\ ~trk[u].stopSent

(***************************************************************************)
(* Properties of one connection.                                           *)
(***************************************************************************)
\* C1: an info that get_info returns is a dict, the bytes received are
\* exactly its bencoding (the decoding was strict), and their digest is the
\* info hash; so the digest of bencode(info) is the info hash.
C1_ReturnedInfoMatchesHash ==
    gi.pc = "returned" =>
        /\ gi.info.t = "dict"
        /\ bencode(gi.info) = info_piecer.data
        /\ sha1(info_piecer.data) = info_hash
        /\ sha1(bencode(gi.info)) = info_hash

\* get_info has returned a dict with entries that came in several pieces.
C1_Witness ==
    /\ gi.pc = "returned"
    /\ gi.info.v # <<>>
    /\ info_piecer.index >= 2

\* C14: in each tracker task the started announce has completed before a
\* peer is pushed; the peer that enters the channel is the first of those
\* left of the announce response, and the others stay in order; the stopped
\* announce is issued only when the last peer was pushed (or there was
\* none); the sender clone is closed only when the task has ended, so
\* after the stopped announce.
C14_Order(t) ==
    LET a == trk[t]
        b == trk'[t]
    IN /\ (a.pc \in {"unspawned", "start", "announce"} /\ b.peers # <<>>) =>
             a.pc = "announce" /\ b.pc = "push"
       /\ (a.peers # <<>> /\ b.peers # a.peers) =>
             /\ a.pc \in {"push", "blocked"}
             /\ \/ b.pc = "done" /\ b.peers = <<>>
                \/ /\ b.peers = Tail(a.peers)
                   /\ pipe'.pc = "got"
                   /\ pipe'.item = Head(a.peers)
       /\ (~a.stopSent /\ b.stopSent) =>
             /\ b.pc = "stopping"
             /\ b.peers = <<>>
             /\ a.pc = "announce" \/ Len(a.peers) = 1
       /\ (a.senderOpen /\ ~b.senderOpen) => b.pc = "done"

C14_Pushed ==
    (pipe' # pipe /\ pipe'.pc = "got") =>
        \E t \in Trackers :
            /\ trk[t].pc \in {"push", "blocked"}
            /\ pipe'.item = Head(trk[t].peers)
            /\ trk'[t].peers = Tail(trk[t].peers)

C14_SessionOrdered ==
    /\ [](\A t \in Trackers :
            /\ trk[t].pc = "stopping" =>
                  trk[t].senderOpen /\ trk[t].stopSent /\ trk[t].peers = <<>>
            /\ trk[t].pc \in {"push", "blocked"} =>
                  trk[t].peers # <<>> /\ ~trk[t].stopSent)
    /\ [][C14_Pushed /\ \A t \in Trackers : C14_Order(t)]_vars

\* A tracker task is in its stopped announce after two peers of its
\* response became workers, while no other tracker has a response yet.
C14_Witness ==
    \E t \in Trackers :
        /\ trk[t].pc = "stopping"
        /\ BagCardinality(workers) = 2
        /\ \A u \in Trackers \ {t} : trk[u].pc \in {"start", "announce"}

C13_StopEnds ==
    (tk.pc = "stopping" /\ tk'.pc = "done") =>
        /\ tk'.cause \in {"reply", "error", "TRACKER_STOP_TIMEOUT"}
        /\ tk'.endedBy # "CancelledError"
        /\ tk'.endedAt <= tk.stopAt + TRACKER_STOP_TIMEOUT
        /\ cancelledAt # <<>> =>
              tk'.endedAt <= cancelledAt[1] + TRACKER_STOP_TIMEOUT
        /\ tk'.cause = "TRACKER_STOP_TIMEOUT" =>
              tk'.endedAt = tk.stopAt + TRACKER_STOP_TIMEOUT

C13_StopNotInterrupted ==
    /\ [](tk.pc = "stopping" => now <= tk.stopAt + TRACKER_STOP_TIMEOUT)
    /\ [][C13_StopEnds]_vars

\* A stopped announce was running when the scope was cancelled and when
\* TRACKER_TIMEOUT expired, and has ended by its own timeout.
C13_Witness ==
    /\ tk.pc = "done"
    /\ tk.cause = "TRACKER_STOP_TIMEOUT"
    /\ cancelledAt # <<>>
    /\ tk.stopAt < cancelledAt[1]
    /\ cancelledAt[1] < TRACKER_TIMEOUT
    /\ tk.endedAt > TRACKER_TIMEOUT

(***************************************************************************)
(* Properties of bencode.py.                                               *)
(***************************************************************************)
\* C11: partial_unbencode(bencode(v) + t) returns (v, t); when
\* partial_unbencode(b) returns (v, t), bencode(v) + t is b; and
\* unbencode(b) returns, the same value, exactly when partial_unbencode(b)
\* returns with no trailing bytes.
C11_MutuallyInverse ==
    /\ (codec.pc \in {"partial", "strict", "done"} /\ codec.obj # NoValue) =>
          /\ codec.partial.err = ""
          /\ PyEq(codec.partial.val, codec.obj)
          /\ get_trailing(codec.buff, codec.partial.idx) = codec.trailing
    /\ codec.pc = "done" => codec.again = codec.buff
    /\ codec.pc \in {"strict", "done"} =>
          /\ codec.strict.err = ""
               <=> (/\ codec.partial.err = ""
                    /\ get_trailing(codec.buff, codec.partial.idx) = <<>>)
          /\ codec.strict.err = "" => codec.strict.val = codec.partial.val

\* A dict whose keys were inserted in descending order has been encoded
\* with bytes appended, decoded and encoded again.
C11_Witness ==
    /\ codec.pc = "done"
    /\ codec.obj.t = "dict"
    /\ Len(codec.obj.v) = 2
    /\ BytesLess(codec.obj.v[2].k, codec.obj.v[1].k)
    /\ codec.trailing # <<>>
    /\ codec.strict.err = "UnbencodeError"

\* C12: a decoder returns a value or raises UnbencodeError, and no other
\* kind of error.
C12_OnlyUnbencodeError ==
    /\ codec.pc \in {"partial", "strict", "done"} =>
          codec.partial.err \in {"", "UnbencodeError"}
    /\ codec.pc \in {"strict", "done"} =>
          codec.strict.err \in {"", "UnbencodeError"}

(***************************************************************************)
(* Properties of the BEP 9 loop of PeerConnection.get_info.                *)
(***************************************************************************)
\* The step received a ut_metadata message: every message received while
\* waiting is recorded in gi.msg.
Received == gi.pc = "receive" /\ gi' # gi

\* C15: the requests are sequential: each request is for the piece whose
\* number is the count of requests sent before, and is sent when every
\* earlier piece has been accepted by the piecer; at most one request is
\* outstanding; when the loop is over piece_qty requests have been sent
\* and as many pieces accepted.
C15_RequestStep ==
    gi'.nreq # gi.nreq =>
        /\ gi.pc = "request" /\ gi'.pc = "receive"
        /\ gi'.nreq = gi.nreq + 1
        /\ gi'.sent = Sending("request", gi.nreq)
        /\ gi.i = gi.nreq
        /\ info_piecer.index = gi.nreq

C15_Sequential ==
    /\ [](/\ gi.nreq - info_piecer.index \in {0, 1}
          /\ gi.pc = "receive" => gi.nreq = info_piecer.index + 1
          /\ gi.pc \in {"validate", "returned"} =>
                /\ gi.nreq = piece_qty(info_piecer)
                /\ info_piecer.index = piece_qty(info_piecer))
    /\ [][C15_RequestStep]_vars

\* An info of three pieces has been fetched with three requests.
C15_Witness ==
    /\ gi.pc = "returned"
    /\ gi.nreq = 3
    /\ gi.sent = Sending("request", 2)

\* C16: while piece k is outstanding a data message is accepted exactly
\* when its piece is k, its total_size, if present, is the metadata_size
\* of the handshake and its payload has the scheduled size of piece k; any
\* other data message ends get_info with PeerError and leaves the piecer
\* as it was.
C16_DataStep ==
    LET m == gi'.msg IN
    (Received /\ m.msg_type = BEP9MsgType.DATA /\ m.valid) =>
        IF /\ m.piece = gi.i
           /\ m.total_size # <<>> => m.total_size = handshake.metadata_size
           /\ m.len = sizes(handshake.metadata_size[1])[gi.i + 1]
        THEN /\ gi'.pc = "request"
             /\ info_piecer'.index = info_piecer.index + 1
             /\ Len(info_piecer'.data) = Len(info_piecer.data) + m.len
        ELSE /\ gi'.pc = "PeerError"
             /\ info_piecer' = info_piecer

C16_DataAccepted == [][C16_DataStep]_vars

\* After one piece was accepted, a data message for the right piece with
\* the right total_size and a payload of the wrong length has ended
\* get_info.
C16_Witness ==
    /\ gi.pc = "PeerError"
    /\ gi.i = 1
    /\ gi.msg.msg_type = BEP9MsgType.DATA
    /\ gi.msg.piece = 1
    /\ gi.msg.total_size = handshake.metadata_size
    /\ gi.msg.len # sizes(info_piecer.total_size)[2]
    /\ info_piecer.index = 1

\* C17: a reject for the outstanding piece ends get_info with PeerError:
\* the core is not left waiting after it.
C17_RejectFails ==
    (/\ gi.msg.msg_type = BEP9MsgType.REJECT
     /\ gi.msg.valid
     /\ gi.msg.piece = gi.i)
        => gi.pc = "PeerError"

\* C18: a request of the peer for piece j, when the reply can be sent, is
\* answered by one reject for piece j and the core keeps waiting; the
\* piecer, the outstanding piece and the number of requests sent are
\* unchanged.
C18_PeerRequestStep ==
    LET m == gi'.msg IN
    (Received /\ m.msg_type = BEP9MsgType.REQUEST /\ m.valid) =>
        /\ info_piecer' = info_piecer
        /\ gi'.i = gi.i
        /\ gi'.nreq = gi.nreq
        /\ gi'.pc \in {"receive", "BrokenResourceError"}
        /\ gi'.pc = "receive" =>
              /\ gi'.sent = Sending("reject", m.piece)
              /\ gi'.nrej = gi.nrej + 1

C18_PeerRequestRejected == [][C18_PeerRequestStep]_vars

\* The peer asked for a piece other than the outstanding one, got its
\* reject and the core waits for the outstanding piece.
C18_Witness ==
    /\ gi.pc = "receive"
    /\ gi.msg.msg_type = BEP9MsgType.REQUEST
    /\ gi.msg.piece # gi.i
    /\ gi.sent = Sending("reject", gi.msg.piece)
    /\ gi.nrej = 1
    /\ gi.i = 1

\* C19: a ut_metadata message whose msg_type is not request, data or
\* reject changes nothing but the record of the last message: get_info goes
\* on waiting for the same piece and nothing is sent.
C19_UnknownStep ==
    LET m == gi'.msg IN
    (/\ Received
     /\ m.valid
     /\ m.msg_type \notin {BEP9MsgType.REQUEST, BEP9MsgType.DATA,
                           BEP9MsgType.REJECT})
        => /\ gi' = [gi EXCEPT !.msg = m]
           /\ info_piecer' = info_piecer

FirstExtendedHandshake ==
    match("ExtendedHandshakeSubscriber", hm.msg) /\ hm.handshakes = 1

\* The message handled is an extended handshake after the first.
DuplicateExtendedHandshake ==
    match("ExtendedHandshakeSubscriber", hm.msg) /\ hm.handshakes > 1

\* The message handled went to the sink or to nobody, and the handler reads
\* on with the connection as it was.
AbsorbedWithoutEffect ==
    /\ hm.pc = "read"
    /\ hm.exc = None
    /\ hm.notified \subseteq {"MessageSink"}

\* C20: a message after the handshake is absorbed without any effect when it
\* is a choke, unchoke, have, bitfield, piece, allowed_fast, suggest or a
\* duplicate extended handshake; every other message, unless it is the first
\* extended handshake or a ut_metadata message sent to the BEP 9 loop, fails
\* the connection with PeerError.
C20_AbsorbedExactly ==
    (/\ hm.msg # NoMsg
     /\ ~FirstExtendedHandshake
     /\ "ExtendedMessageChanneller" \notin hm.notified)
        => IF \/ hm.msg.klass \in {"Choke", "Unchoke", "Have", "Bitfield",
                                   "Piece", "AllowedFast", "Suggest"}
              \/ DuplicateExtendedHandshake
           THEN AbsorbedWithoutEffect
           ELSE hm.pc = "raised" /\ hm.exc = "PeerError"

\* C21: every extended handshake after the first is absorbed: the handler
\* reads on without an exception and the handshake the first one stored in
\* bep10_handshake stays as it was.
C21_LaterHandshakesAbsorbed ==
    DuplicateExtendedHandshake
        => /\ hm.pc = "read"
           /\ hm.exc = None
           /\ hm.bep10_handshake = "set"

\* C22: when the extended handshake names no ut_metadata in m or carries no
\* integer metadata_size, get_info ends with PeerError at its first step,
\* and no request (and no other BEP 9 message) is sent to the peer.
C22_Unusable == ~handshake.ut_metadata \/ handshake.metadata_size = <<>>

C22_NoRequestWithoutMetadata ==
    /\ [](C22_Unusable =>
            /\ gi.pc \in {"handshake", "PeerError"}
            /\ gi.nreq = 0
            /\ gi.sent = Sending("none", 0))
    /\ [][(C22_Unusable /\ gi.pc = "handshake") => gi'.pc = "PeerError"]_vars

\* get_info has failed on a handshake that has ut_metadata but no size.
C22_Witness ==
    /\ handshake.ut_metadata
    /\ handshake.metadata_size = <<>>
    /\ gi.pc = "PeerError"
    /\ gi.nreq = 0

\* C24: a frame of length 0 is consumed as a keepalive: the handler reads
\* on without an exception, no message is yielded for it and no subscriber
\* is notified.
C24_KeepaliveConsumed ==
    hm.length = <<0>>
        => /\ hm.pc = "read"
           /\ hm.exc = None
           /\ hm.msg = NoMsg
           /\ hm.notified = {}

\* C26: a length prefix over MAX_PEER_MSG_LEN ends the handler with the
\* PeerError about an overly large message and no body is read for it; a
\* length from 1 to MAX_PEER_MSG_LEN never does, and its body is read unless
\* the peer closes the connection first.
C26_BodyNotRead ==
    (hm'.length # <<>> /\ hm'.length[1] > MAX_PEER_MSG_LEN)
        => hm'.payload = hm.payload

C26_LengthLimit ==
    /\ [](hm.length # <<>> =>
            LET length == hm.length[1]
                large == "Peer tried to send overly large message"
            IN  /\ length > MAX_PEER_MSG_LEN =>
                      /\ hm.pc = "raised"
                      /\ hm.exc = "PeerError"
                      /\ hm.said = large
                /\ length \in 1..MAX_PEER_MSG_LEN =>
                      /\ hm.said # large
                      /\ \/ hm.said = "Peer closed the connection early"
                         \/ /\ hm.payload # <<>>
                            /\ hm.payload[1].length = length)
    /\ [][C26_BodyNotRead]_vars

\* A bitfield with the longest length allowed has been read and absorbed.
C26_Witness ==
    /\ hm.length = <<MAX_PEER_MSG_LEN>>
    /\ hm.pc = "read"
    /\ hm.payload # <<>>
    /\ hm.payload[1].length = MAX_PEER_MSG_LEN
    /\ hm.msg.klass = "Bitfield"

(***************************************************************************)
(* Properties of the handshake.                                            *)
(***************************************************************************)
\* The peer's handshake arrives whole and passes every check of handshake().
C27_Accepted ==
    /\ hs.reply.arrives
    /\ hs.reply.header
    /\ hs.reply.info_hash
    /\ "BEP10_EXTENSIONS" \in hs.reply.extensions

C25_KeepaliveOnIdle ==
    /\ ka.pc = "sleep" => ka.now - ka.lastOut <= KEEPALIVE_PERIOD
    /\ ka.emitted # <<>> => ka.idle >= KEEPALIVE_PERIOD

(***************************************************************************)
(* Properties of the UDP tracker session.                                  *)
(***************************************************************************)
\* C28: an announce request is sent only after a connect response with
\* action 0 and the transaction id of the connect request has arrived, and
\* it carries the connection id of the latest such response; a connect
\* request is sent only when the session has no connection.
C28_ConnectStep ==
    udp'.nconnects # udp.nconnects
        => /\ udp.connection = <<>>
           /\ udp'.msg.action = 0
           /\ udp'.kind = "connect"

C28_ConnectBeforeAnnounce ==
    /\ [](/\ udp.msg.action = 1 =>
                /\ udp.accepted # <<>>
                /\ udp.msg.connection_id = udp.accepted[1]
          /\ udp.connection # <<>> => udp.connection = udp.accepted)
    /\ [][C28_ConnectStep]_vars

\* An announce is out on the second connection of the session.
C28_Witness ==
    /\ udp.pc = "wait"
    /\ udp.kind = "announce"
    /\ udp.nconnects = 2
    /\ udp.accepted # <<>>
    /\ udp.msg = Datagram(1, udp.msg.transaction_id, udp.accepted[1])

\* C29: in a send_receive call n starts at 0, goes up by one on each reply
\* timeout until it is 8 and changes on nothing else; each wait is
\* 15 * 2^n seconds and what is sent again is the datagram sent first.
C29_Step ==
    /\ udp'.n # udp.n =>
          \/ udp'.ntimeouts = udp.ntimeouts + 1 /\ udp'.n = udp.n + 1
          \/ udp'.nsent = 1 /\ udp'.n = 0
    /\ (udp'.ntimeouts = udp.ntimeouts + 1 /\ udp.n < 8) =>
          udp'.n = udp.n + 1
    /\ udp'.nsent = 1 => udp'.n = 0

C29_Retransmission ==
    /\ [](udp.pc = "wait" =>
            /\ udp.n \in 0..8
            /\ udp.n = IF udp.ntimeouts < 8 THEN udp.ntimeouts ELSE 8
            /\ udp.wait = 15 * (2 ^ udp.n)
            /\ udp.msg = udp.first)
    /\ [][C29_Step]_vars

\* Ten waits have timed out: n stays at 8 and the wait at 3840 s.
C29_Witness ==
    /\ udp.pc = "wait"
    /\ udp.ntimeouts = 10
    /\ udp.n = 8
    /\ udp.wait = 3840

\* C30: a response that is discarded causes no transmission: the request
\* has been sent once and once more for each reply timeout.
C30_DiscardedSilently ==
    udp.pc = "wait" => udp.nsent = 1 + udp.ntimeouts

(***************************************************************************)
(* Properties of a connection the peer closes.                             *)
(***************************************************************************)
\* C23: once the peer has closed the connection and handle_messages has
\* ended on it, the worker, unless the session is cancelled, leaves the
\* exchange with a PeerError.
C23_ClosedStep ==
    \A w \in Workers :
        (/\ w.pc = "exchange"
         /\ "handle_messages" \notin w.tasks
         /\ ~cancelled')
            => \A w2 \in Workers' :
                   (w2.peer = w.peer /\ w2.pc # "exchange")
                       => w2.result = "PeerError"

C23_ClosedEarly == [][C23_ClosedStep]_vars

\* C31: an error response (action 3) received while a connect or announce
\* request is out ends that request with TrackerFailure, whatever n is and
\* whatever transaction id the response carries; the request is not sent
\* again, no connection request follows, the connection is kept and no
\* announce returns.
C31_Step ==
    /\ udp'.error # udp.error =>
          /\ udp.pc = "wait"
          /\ udp'.pc = "raised"
          /\ udp'.exc = "TrackerFailure"
          /\ udp'.nsent = udp.nsent
          /\ udp'.nconnects = udp.nconnects
          /\ udp'.connection = udp.connection
          /\ udp'.event = udp.event
    /\ udp.pc = "raised" => udp' = udp

C31_ErrorResponse ==
    /\ [](udp.error # <<>> =>
            /\ udp.pc = "raised"
            /\ udp.exc = "TrackerFailure")
    /\ [](udp.pc = "wait" =>
            \A resp \in Responses :
                IsErrorResponse(resp) =>
                    ResponseParser(resp) = "TrackerFailure")
    /\ [][C31_Step]_vars

\* An announce that has timed out twice fails on an error response that
\* carries another transaction id than the request.
C31_Witness ==
    /\ udp.pc = "raised"
    /\ udp.kind = "announce"
    /\ udp.n = 2
    /\ udp.error # <<>>
    /\ udp.error[1].transaction_id # udp.msg.transaction_id

(***************************************************************************)
(* Properties of the UDP tracker session with time.                        *)
(***************************************************************************)
\* C32: when the 60 seconds of a connection are over while an announce
\* waits for its reply (or before the announce is sent), the session drops
\* the connection and raises nothing to its caller; what it sends next is a
\* connection request; an announce request that is out carries the id of
\* the session's connection, and that id was obtained at most 60 s before
\* the request was transmitted.
C32_Step ==
    /\ uc'.lapses # uc.lapses =>
          /\ now >= uc.expiration
          /\ udp.connection # <<>>
          /\ udp'.connection = <<>>
          /\ udp'.pc = "call"
          /\ udp'.exc = None
          /\ udp'.event = udp.event
          /\ udp'.nsent = udp.nsent
    /\ (udp.pc = "call" /\ udp.connection = <<>> /\ udp' # udp) =>
          /\ udp'.kind = "connect"
          /\ udp'.msg.action = 0
          /\ udp'.nconnects = udp.nconnects + 1

C32_ConnectionExpiry ==
    /\ [](/\ uc.sentAge <= CONNECTION_LIFETIME
          /\ udp.exc # "ConnectionTimeoutError"
          /\ (udp.pc = "wait" /\ udp.kind = "announce") =>
                /\ udp.connection # <<>>
                /\ udp.msg.connection_id = udp.connection[1]
                /\ uc.tryAt < uc.expiration
                /\ uc.expiration <= uc.tryAt + CONNECTION_LIFETIME)
    /\ [][C32_Step]_vars

\* The connection has lapsed during an announce that had timed out twice,
\* and the announce is out again on the second connection.
C32_Witness ==
    /\ uc.lapses = 1
    /\ udp.pc = "wait"
    /\ udp.kind = "announce"
    /\ udp.nconnects = 2
    /\ uc.tryAt >= CONNECTION_LIFETIME
    /\ udp.msg.connection_id = udp.connection[1]

(***************************************************************************)
(* Properties of InfoPiecer.                                               *)
(***************************************************************************)
\* C33: an add_piece that is rejected (the cursor is at the number of
\* pieces, or the blob is not as long as the piece at the cursor) raises
\* ValueError and leaves data, digest and cursor as they were; an add_piece
\* that is accepted appends the blob to data, feeds the blob to the digest
\* and advances the cursor by one.
C33_Rejected(blob) ==
    \/ info_piecer.index >= piece_qty(info_piecer)
    \/ Len(blob) # sizes(info_piecer.total_size)[info_piecer.index + 1]

C33_Step ==
    (ap' # ap \/ info_piecer' # info_piecer) =>
        IF C33_Rejected(ap'.blob)
        THEN /\ ap'.exc = "ValueError"
             /\ info_piecer' = info_piecer
        ELSE /\ ap'.exc = None
             /\ info_piecer'.data = info_piecer.data \o ap'.blob
             /\ info_piecer'.digest = sha1_update(info_piecer.digest, ap'.blob)
             /\ info_piecer'.index = info_piecer.index + 1
             /\ info_piecer'.total_size = info_piecer.total_size

C33_AddPieceFrame ==
    /\ [](info_piecer.digest = sha1(info_piecer.data))
    /\ [][C33_Step]_vars

\* A blob of the wrong length has been rejected after two pieces were
\* accepted and before the last one.
C33_Witness ==
    /\ ap.exc = "ValueError"
    /\ info_piecer.index = 2
    /\ piece_qty(info_piecer) = 3
    /\ Len(ap.blob) # sizes(info_piecer.total_size)[3]
    /\ Len(info_piecer.data) = 2 * INFO_CHUNK_SIZE

\* C34: for every total_size >= 0 and after any calls of add_piece, the
\* number of pieces is ceil(total_size / INFO_CHUNK_SIZE), every piece has
\* INFO_CHUNK_SIZE bytes but the last, which has 1..INFO_CHUNK_SIZE, the
\* cursor is at most the number of pieces, and data is as long as the
\* pieces before the cursor together, which is at most total_size and is
\* total_size exactly when the cursor is at the number of pieces.
RECURSIVE C34_Sum(_, _)
C34_Sum(s, k) == IF k = 0 THEN 0 ELSE s[k] + C34_Sum(s, k - 1)

C34_PiecerInvariant ==
    LET total_size == info_piecer.total_size
        s == sizes(total_size)
        qty == piece_qty(info_piecer)
        index == info_piecer.index
    IN  /\ total_size >= 0
        /\ qty = (total_size + INFO_CHUNK_SIZE - 1) \div INFO_CHUNK_SIZE
        /\ \A j \in 1..qty :
              IF j < qty THEN s[j] = INFO_CHUNK_SIZE
              ELSE s[j] \in 1..INFO_CHUNK_SIZE
        /\ index \in 0..qty
        /\ Len(info_piecer.data) = C34_Sum(s, index)
        /\ Len(info_piecer.data) <= total_size
        /\ (Len(info_piecer.data) = total_size) <=> (index = qty)

\* Every piece of an info of 9 bytes is in, the last of one byte, and a
\* further piece has been refused.
C34_Witness ==
    /\ info_piecer.total_size = 9
    /\ info_piecer.index = 3
    /\ Len(info_piecer.data) = 9
    /\ ap.exc = "ValueError"

(***************************************************************************)
(* Properties of the session with fairness.                                *)
(***************************************************************************)
\* C35: every peer worker ends and gives its token back whatever its peer
\* does, and in particular when the peer keeps the connection open and
\* sends nothing: unless the tasks of some connection end while get_info
\* waits, from some point on every worker there is is done and holds no
\* token.
C35_ConnectionsStayOpen ==
    \A w \in Workers : w.pc = "exchange" => w.tasks = ConnTasks

C35_WorkersTerminate ==
    ([]C35_ConnectionsStayOpen)
        => <>[](\A w \in Workers : w.pc = "done" /\ ~w.token)


(***************************************************************************)
(* Properties of the three tasks of one connection.                        *)
(***************************************************************************)

\* C36: a message with the core's ut_metadata id is never dispatched while
\* no subscriber for it is registered: whenever the handler fails with
\* "Peer sent unexpected message" on such a message from a peer that
\* declared ut_metadata, the peer had sent it before its extended handshake.
C36_RoutedToChannel ==
    (/\ cx.peer_code # 0
     /\ cx.said = "Peer sent unexpected message"
     /\ cx.hmsg.klass = "Extended"
     /\ cx.hmsg.msg_id = UT_METADATA)
        => "ExtendedHandshakeSubscriber" \in cx.subscribers

\* C37: once get_info has accepted the last piece and validated the info,
\* the connection ends with that info.
C37_InfoStands == (cx.g = "returned" /\ cx.result # None) => cx.result = "info"

\* C38: no send fails because another task is inside the socket's send.
C38_OneSender == "BusyResourceError" \notin cx.exc

\* C40: every ut_metadata message the core has sent carries the id the peer
\* declared.
C40_PeerCode == cx.out.kind # "none" => cx.out.msg_id = cx.peer_code


(***************************************************************************)
(* Properties of the peer workers once an info has been fetched.           *)
(***************************************************************************)

\* A step in which info_fetched is set: a worker waiting for a token stays
\* waiting or is done, and no worker newly enters Peer.connect.
C39_Step ==
    info_fetched =>
        /\ \A w \in BagToSet(workers) :
             w.pc = "acquire" =>
                \A v \in BagToSet(workers') :
                    v.peer = w.peer => v.pc \in {"acquire", "done"}
        /\ {v \in BagToSet(workers') : v.pc = "connect"}
               \subseteq {w \in BagToSet(workers) : w.pc = "connect"}

\* C39: once info_fetched is set, a worker that has not yet taken a token
\* never connects to its peer and never sends on the info channel: when it
\* gets a token it ends at once.
C39_NoConnectAfterFetch == [][C39_Step]_vars

\* A worker has taken a token after info_fetched was set and returned
\* without its peer's info reaching the orchestrator.
C39_Witness ==
    /\ info_fetched
    /\ \E w \in BagToSet(workers) :
         /\ w.pc = "done"
         /\ w.result = "return"
         /\ orch.md # w.peer

====
